---- MODULE Spec2Model ----
(***************************************************************************)
(* Model of the Avito chat monitor: the poll cycle of AvitoChatMonitor     *)
(* (token cache, chat listing, dedup by message id, classification),       *)
(* the AutoReplyManager (at most one reply per chat, persisted state       *)
(* file) and the MonitorService scheduler (background loop, check_now).    *)
(*                                                                         *)
(* The specifications share the actions below:                             *)
(*   Spec      - one caller runs poll cycles one after another;            *)
(*   SpecToken - Spec while the clock advances;                            *)
(*   SpecPages - Spec with chat listings of one to five pages;             *)
(*   SpecCrash - Spec plus a process crash/restart at any step;            *)
(*   SpecConc  - the scheduler's loop thread and a check_now caller;       *)
(*   SpecSched - start() and stop() calls and the loop threads they make;  *)
(*   SpecStop  - one started loop thread and stop(), under fair scheduling;*)
(*   SpecDisk  - the loop thread's cycles while the state file cannot be   *)
(*               read or written;                                          *)
(*   SpecBatch - process_auto_replies on one batch of unread messages;     *)
(*   SpecCap   - _save_processed_ids around the cap of the stored ids;     *)
(*   SpecName  - extract_user_name on one chat record;                     *)
(*   SpecStamp - _process_timestamps on one API response;                  *)
(*   SpecIds   - the scan of one chat record with or without ids;          *)
(*   SpecLoop  - the started loop thread while the remote can fail;        *)
(*   SpecReset - cycles and calls of reset_processed_ids;                  *)
(*   SpecRace  - SpecReset with the reset's file read and write apart.     *)
(***************************************************************************)
EXTENDS Integers, Sequences, FiniteSets, TLC

\* ------------------------------------------------------------------------
\* Bounds of the model and program constants
\* ------------------------------------------------------------------------

\* the clock runs from 0 to MaxTime seconds, in jumps of TickStep seconds
MaxTime == 600
TickStep == 300
\* the token endpoint issues at most MaxTokens tokens in one life of the process
MaxTokens == 2
\* the process is restarted at most MaxRestarts times (SpecCrash)
MaxRestarts == 1
\* the loop threads start at most MaxCycles cycles in all, and start() is
\* called at most MaxStarts times (SpecConc, SpecSched, SpecStop)
MaxCycles == 2
MaxStarts == 2
\* check_now is called at most MaxChecks times (SpecConc)
MaxChecks == 1
\* reset_processed_ids is called at most MaxResets times (SpecReset, SpecRace)
MaxResets == 1

\* config.py
BATCH_SIZE == 50
MAX_CHATS == 200
\* avito_api.py: the safety margin subtracted from expires_in
TOKEN_MARGIN == 300
\* avito_api.py: the number of processed ids kept in the state file
STATE_CAP == 1000
\* monitor_service.py: the shortest sleep after a cycle that found messages
MIN_ACTIVE_SLEEP == 10

\* the expires_in values the token endpoint answers with
ExpiresInSet == {300, 900}

\* ------------------------------------------------------------------------
\* The remote side: chats, and the messages that arrive in them
\* ------------------------------------------------------------------------

Chats == <<"c1", "c2">>
ChatIds == {Chats[i] : i \in 1..Len(Chats)}

\* the inbound messages of each chat, in the order in which they arrive
ChatMsgs == [c \in ChatIds |->
               IF c = "c1" THEN <<"m1", "m2">> ELSE <<"m3", "m4">>]
InboundIds == UNION {{ChatMsgs[c][k] : k \in 1..Len(ChatMsgs[c])} : c \in ChatIds}
\* the message the remote lists as last after our own reply was accepted
ReplyMsg == [c \in ChatIds |-> IF c = "c1" THEN "r1" ELSE "r2"]
NoMsg == "none"
\* the last message of a chat in which nothing is waiting (read long ago)
OldMsg == "old"
\* the numbers of quiet chats the remote lists ahead of the chats above
PadSet == {0, 48, 49, 198, 200}

\* content.text of each message, as a sequence of words
TextOf(m) ==
    CASE m = "m1" -> <<"Hello">>
      [] m = "m2" -> <<"Is", "it", "available">>
      [] m = "m3" -> <<"Podpiska", "s", "API", "Messendzhera", "nuzhna">>
      [] m = "m4" -> <<>>
      [] OTHER    -> <<"Telegram">>
\* content.text is null in the remote's JSON (msg['text'] is None)
NullText(m) == m = "m4"
DirOf(m) == IF m \in InboundIds THEN "in" ELSE "out"
ReadOf(m) == m \notin InboundIds

\* str.lower(), word by word
LowerWord(w) ==
    CASE w = "Podpiska"     -> "podpiska"
      [] w = "API"          -> "api"
      [] w = "Messendzhera" -> "messendzhera"
      [] w = "Hello"        -> "hello"
      [] w = "Is"           -> "is"
      [] w = "Telegram"     -> "telegram"
      [] OTHER              -> w
Lower(text) == [i \in 1..Len(text) |-> LowerWord(text[i])]

\* config.SYSTEM_MESSAGES
SYSTEM_MESSAGES ==
    { <<"pereydite", "na", "podpisku", "s", "api", "messendzhera">>,
      <<"podpiska", "s", "api", "messendzhera">>,
      <<"chtoby", "poluchit", "dostup", "k", "chatam">>,
      <<"api", "messendzhera">>,
      <<"podpiska", "api", "messendzhera">> }

\* phrase in text
Contains(text, phrase) ==
    \E i \in 1..Len(text) :
        /\ i + Len(phrase) - 1 <= Len(text)
        /\ SubSeq(text, i, i + Len(phrase) - 1) = phrase

is_system_message_mut(text) ==
    /\ text # <<>>
    /\ \E phrase \in SYSTEM_MESSAGES : Contains(text, phrase)

\* is_system_message: not text -> False; any phrase in text.lower()
is_system_message(text) ==
    /\ text # <<>>
    /\ \E phrase \in SYSTEM_MESSAGES : Contains(Lower(text), phrase)

\* ------------------------------------------------------------------------
\* State
\* ------------------------------------------------------------------------

LoopThreads == {"loop", "loop2"}
Threads == LoopThreads \cup {"api"}
Insts == {"monitor", "replier"}
NoToken == 0
NoError == "none"

VARIABLES
    \* the remote side
    inbox,                  \* per chat: [n: inbound messages arrived, last: last_message id]
    pad,                    \* quiet chats the remote lists ahead of Chats
    now,                    \* the wall clock, in seconds
    issued,                 \* tokens issued by the token endpoint so far
    \* files
    state_file,             \* STATE_FILENAME: [exists, processed, sent]
    snapshot,               \* JSON_FILENAME: the chat listing last written
    disk_faulty,            \* writes of STATE_FILENAME and JSON_FILENAME can fail
    remote_faulty,          \* requests to the remote (token, chats, send) can fail
    body_faulty,            \* a reply POST can be answered 2xx with a body that is not JSON
    \* AvitoChatMonitor and its AutoReplyManager
    processed_message_ids,
    sent_replies,
    access_token,           \* per instance: the cached token (NoToken: None)
    token_expires,          \* per instance
    auto_reply_enabled,
    last_error,             \* stats['last_error']
    last_unread_count,      \* stats['last_unread_count']
    \* one record per thread executing check_for_updates
    th,
    \* MonitorService
    running,
    interval,
    thread,                 \* self.thread: the loop thread of the last start()
    loop,                   \* per loop thread: where it is in _run_monitoring_loop
    service_stats,
    stopping,               \* a stop() call is waiting in join
    startCalls,             \* calls of start so far
    \* observations (history)
    surfaced,               \* per message id: cycles that returned it as unread
    sends,                  \* per message id: calls of send_auto_reply for it
    posts,                  \* per chat: reply POSTs made
    okPosts,                \* per chat: reply POSTs the remote accepted
    failedSends,            \* message ids whose reply send failed
    rejected,               \* per instance: the remote answered 401 to the cached token
    lastTokenCall,          \* the last get_access_token call
    restarts,
    checkNows,              \* calls of check_now so far
    repliedAtCrash,         \* chats the remote had accepted a reply for, at a crash
    \* a call of one of the module's pure functions
    arg,                    \* its argument
    result,                 \* what it returned (NoResult: not called yet)
    \* a call of reset_processed_ids (the HTTP thread of /api/reset-processed-ids)
    reset                   \* [pc, state: the file as _save_processed_ids read it, calls]

\* the scheduler's variables; the variables the poll cycle never changes
svc == <<running, interval, thread, loop, service_stats, stopping, startCalls>>
crash == <<pad, disk_faulty, remote_faulty, body_faulty, restarts,
           repliedAtCrash, checkNows, arg, result, reset>>

vars == <<inbox, now, issued, state_file, snapshot, processed_message_ids,
          sent_replies, access_token, token_expires, auto_reply_enabled,
          last_error, last_unread_count, th, svc, surfaced, sends,
          posts, okPosts, failedSends, rejected, lastTokenCall, crash>>

\* ret: what check_for_updates returned ("triple": all_chats, unread_messages,
\* auto_reply_results; "empty": {"chats": []}, [], []; "none": not yet);
\* due (observation): the chats of the listing whose last message qualified
\* when the cycle fetched the chats
IdleThread ==
    [pc |-> "idle", page |-> <<>>, idx |-> 0, unread |-> <<>>, ridx |-> 0,
     results |-> <<>>, all |-> <<>>, offset |-> 0, flushed |-> FALSE,
     err |-> FALSE, fetch_failed |-> FALSE, ret |-> "none", due |-> {}]

\* no get_access_token call was made in the step that led here
NoCall == [inst |-> "none", res |-> "none", requests |-> 0, expires_in |-> 0,
           returned |-> NoToken, rejectedBefore |-> FALSE]

\* a loop thread that was not created: pc, the interval it was started with,
\* cycle_count, the 1-second sleeps left (and planned), the last_unread_count
\* it read, why it left the loop, and whether stop() came during a cycle
NoInterval == [s |-> 0, f |-> FALSE, inf |-> FALSE]
NoLoop == [pc |-> "none", interval |-> NoInterval, cycle_count |-> 0,
           sleep |-> 0, planned |-> 0, found |-> 0, why |-> "none",
           midstop |-> FALSE]

\* service_stats after __init__
NoStats == [start_attempts |-> 0, total_cycles |-> 0, successful_cycles |-> 0,
            failed_cycles |-> 0, thread_alive |-> FALSE, last_error |-> NoError]

NoFile == [exists |-> FALSE, processed |-> {}, sent |-> {}]

\* no pure function is being called
NoArg == [t |-> "none"]
NoResult == [t |-> "none"]

\* no reset_processed_ids call is in progress, none was made
NoReset == [pc |-> "idle", state |-> NoFile, calls |-> 0]

InitBase ==
    /\ inbox = [c \in ChatIds |-> [n |-> 0, last |-> NoMsg]]
    /\ now = 0
    /\ issued = 0
    /\ state_file = NoFile
    /\ snapshot = <<>>
    /\ processed_message_ids = {}
    /\ sent_replies = {}
    /\ access_token = [i \in Insts |-> NoToken]
    /\ token_expires = [i \in Insts |-> 0]
    /\ auto_reply_enabled \in BOOLEAN
    /\ last_error = NoError
    /\ last_unread_count = 0
    /\ th = [t \in Threads |-> IdleThread]
    /\ disk_faulty = FALSE
    /\ remote_faulty = TRUE
    /\ body_faulty = FALSE
    /\ running = FALSE
    /\ interval = NoInterval
    /\ thread = "none"
    /\ loop = [L \in LoopThreads |-> NoLoop]
    /\ service_stats = NoStats
    /\ stopping = FALSE
    /\ startCalls = 0
    /\ surfaced = [m \in InboundIds |-> 0]
    /\ sends = [m \in InboundIds |-> 0]
    /\ posts = [c \in ChatIds |-> 0]
    /\ okPosts = [c \in ChatIds |-> 0]
    /\ failedSends = {}
    /\ rejected = [i \in Insts |-> FALSE]
    /\ lastTokenCall = NoCall
    /\ restarts = 0
    /\ checkNows = 0
    /\ repliedAtCrash = {}
    /\ arg = NoArg
    /\ result = NoResult
    /\ reset = NoReset

\* the account has only the chats of Chats
Init == InitBase /\ pad = 0

\* ------------------------------------------------------------------------
\* Helpers: the decisions the code takes
\* ------------------------------------------------------------------------

Min(a, b) == IF a < b THEN a ELSE b

TokenValid_mut(inst) ==
    /\ access_token[inst] # NoToken
    /\ now <= token_expires[inst]

\* get_access_token: the cached token is returned while now < token_expires
TokenValid(inst) ==
    /\ access_token[inst] # NoToken
    /\ now < token_expires[inst]

\* get_access_token: token_expires = now + (expires_in - 300)
TokenExpiry(t, expires_in) == t + (expires_in - TOKEN_MARGIN)

AlreadyReplied_mut(chat_id) == FALSE

\* send_auto_reply: if chat_id in self.sent_replies
AlreadyReplied(chat_id) == chat_id \in sent_replies

MarkReplied_mut(replies, chat_id) == replies

\* send_auto_reply: self.sent_replies.add(chat_id)
MarkReplied(replies, chat_id) == replies \cup {chat_id}

IsNewMessage_mut(message_id) == TRUE

\* get_unread_messages: message_id not in self.processed_message_ids
IsNewMessage(message_id) == message_id \notin processed_message_ids

AddProcessed_mut(ids, message_id) == ids

\* get_unread_messages: self.processed_message_ids.add(message_id)
AddProcessed(ids, message_id) == ids \cup {message_id}

\* get_unread_messages: is_unread and is_incoming
IsUnreadIncoming(m) == ~ReadOf(m) /\ DirOf(m) = "in"

ShouldSaveProcessed_mut(unread_messages) == FALSE

\* get_unread_messages: if unread_messages: self._save_processed_ids()
ShouldSaveProcessed(unread_messages) == unread_messages # <<>>

RegularMessages_mut(msgs) == msgs

\* process_auto_replies / check_for_updates: the messages that are not system
RegularMessages(msgs) == SelectSeq(msgs, LAMBDA x : ~x.is_system)

ShouldReply_mut(unread_messages) ==
    RegularMessages(unread_messages) # <<>>

\* check_for_updates: if self.auto_reply_enabled and regular_messages
ShouldReply(unread_messages) ==
    auto_reply_enabled /\ RegularMessages(unread_messages) # <<>>

\* the chat listing of the remote, and one page of it (limit, offset)
Listing == [i \in 1..(pad + Len(Chats)) |->
              IF i <= pad
              THEN [id |-> "quiet", pos |-> i, last |-> OldMsg]
              ELSE [id |-> Chats[i - pad], pos |-> i,
                    last |-> inbox[Chats[i - pad]].last]]
Page(limit, offset) ==
    SubSeq(Listing, offset + 1, Min(offset + limit, Len(Listing)))

\* the chats among the first MAX_CHATS of the listing whose last message is
\* unread, inbound and not yet in processed_message_ids
Qualifying ==
    {Listing[i].id : i \in {j \in 1..Min(Len(Listing), MAX_CHATS) :
        /\ Listing[j].last # NoMsg
        /\ IsUnreadIncoming(Listing[j].last)
        /\ IsNewMessage(Listing[j].last)}}

ChatsOnError_mut == Page(BATCH_SIZE, 0)

\* get_chats: what its caller gets when the token or the GET failed
\* (return {"chats": []})
ChatsOnError == <<>>

Handled_mut(exc) == exc \in {"HTTPError", "ConnectionError"}

\* check_for_updates: except Exception as e
Handled(exc) == exc \in {"HTTPError", "ConnectionError", "TypeError", "OSError"}

\* check_for_updates: the log line of each of the first three new messages
\* slices msg['text'], which raises TypeError when the text is None
LogRaises(unread_messages) ==
    \E i \in 1..Min(3, Len(unread_messages)) :
        NullText(unread_messages[i].message_id)

\* _save_processed_ids: the ids written; beyond the cap, list(set)[-1000:]
\* keeps 1000 ids in the set's iteration order, which is arbitrary
RECURSIVE DropAny(_, _)
DropAny(ids, k) ==
    IF k = 0 THEN {ids} ELSE UNION {DropAny(ids \ {x}, k - 1) : x \in ids}
PersistedIds(ids) ==
    IF Cardinality(ids) > STATE_CAP
    THEN DropAny(ids, Cardinality(ids) - STATE_CAP)
    ELSE {ids}

\* _save_processed_ids / _save_sent_replies: read the file, replace one key,
\* write it back; a failure (io = "fail") is logged and the file is left as is
IoOutcomes == IF disk_faulty THEN {"ok", "fail"} ELSE {"ok"}
SaveProcessedIds_mut(file, kept, io) ==
    IF io = "ok"
    THEN [exists |-> TRUE, processed |-> kept, sent |-> {}]
    ELSE file

SaveProcessedIds(file, kept, io) ==
    IF io = "ok"
    THEN [exists |-> TRUE, processed |-> kept, sent |-> file.sent]
    ELSE file
SaveSentReplies(file, replies, io) ==
    IF io = "ok"
    THEN [exists |-> TRUE, processed |-> file.processed, sent |-> replies]
    ELSE file

\* ------------------------------------------------------------------------
\* The remote side
\* ------------------------------------------------------------------------

\* the next inbound message of chat c arrives and becomes its last message
Arrive(c) ==
    /\ inbox[c].n < Len(ChatMsgs[c])
    /\ inbox' = [inbox EXCEPT ![c] = [n |-> @.n + 1, last |-> ChatMsgs[c][@.n + 1]]]
    /\ UNCHANGED <<now, issued, state_file, snapshot, processed_message_ids,
                   sent_replies, access_token, token_expires,
                   auto_reply_enabled, last_error, last_unread_count, th,
                   svc, surfaced, sends, posts, okPosts, failedSends,
                   rejected, crash>>
    /\ lastTokenCall' = NoCall

Tick ==
    /\ now + TickStep <= MaxTime
    /\ now' = now + TickStep
    /\ UNCHANGED <<inbox, issued, state_file, snapshot, processed_message_ids,
                   sent_replies, access_token, token_expires,
                   auto_reply_enabled, last_error, last_unread_count, th,
                   svc, surfaced, sends, posts, okPosts, failedSends,
                   rejected, crash>>
    /\ lastTokenCall' = NoCall

\* ------------------------------------------------------------------------
\* get_access_token (both instances)
\* ------------------------------------------------------------------------

\* what a call can end with: the cached token, a new token, or a failure of
\* the exchange (HTTP 401, another HTTP error, a network error)
\* (a remote that can fail refuses every exchange after MaxTokens tokens; a
\* reliable one goes on answering, its tokens numbered up to MaxTokens)
Failures == IF remote_faulty THEN {"401", "http", "net"} ELSE {}
TokenResults(inst) ==
    IF TokenValid(inst) THEN {"cached"}
    ELSE IF issued < MaxTokens \/ ~remote_faulty THEN {"ok"} \cup Failures
    ELSE Failures
NextTokenNumber == Min(issued + 1, MaxTokens)
ExpiresInFor(res) == IF res = "ok" THEN ExpiresInSet ELSE {0}
TokenOk(res) == res \in {"cached", "ok"}

GetAccessToken_mut(inst, res, e) ==
    /\ res \in TokenResults(inst)
    /\ IF res = "ok"
       THEN /\ access_token' = [access_token EXCEPT ![inst] = NextTokenNumber]
            /\ token_expires' = [token_expires EXCEPT ![inst] = TokenExpiry(now, e)]
            /\ issued' = NextTokenNumber
       ELSE /\ access_token' = [access_token EXCEPT ![inst] =
                                  IF res = "cached" THEN @ ELSE NoToken]
            /\ UNCHANGED <<token_expires, issued>>
    /\ lastTokenCall' =
         [inst |-> inst, res |-> res,
          requests |-> IF res = "cached" THEN 0 ELSE 1,
          expires_in |-> e,
          returned |-> IF res = "cached" THEN access_token[inst]
                       ELSE IF res = "ok" THEN NextTokenNumber ELSE NoToken,
          rejectedBefore |-> rejected[inst]]

\* get_access_token of the monitor (inst "monitor") or of its AutoReplyManager
\* ("replier"): res is "cached", "ok" or the failure of the exchange, which
\* raises to the caller (nothing is returned); e is the expires_in of the answer
GetAccessToken(inst, res, e) ==
    /\ res \in TokenResults(inst)
    /\ IF res = "ok"
       THEN /\ access_token' = [access_token EXCEPT ![inst] = NextTokenNumber]
            /\ token_expires' = [token_expires EXCEPT ![inst] = TokenExpiry(now, e)]
            /\ issued' = NextTokenNumber
       ELSE UNCHANGED <<access_token, token_expires, issued>>
    /\ lastTokenCall' =
         [inst |-> inst, res |-> res,
          requests |-> IF res = "cached" THEN 0 ELSE 1,
          expires_in |-> e,
          returned |-> IF res = "cached" THEN access_token[inst]
                       ELSE IF res = "ok" THEN NextTokenNumber ELSE NoToken,
          rejectedBefore |-> rejected[inst]]

\* what a request to the remote API can end with
ApiOutcomes == {"ok"} \cup Failures

\* what the reply POST can end with: besides the above, a 2xx answer whose
\* body response.json() cannot parse
PostOutcomes == ApiOutcomes \cup (IF body_faulty THEN {"badjson"} ELSE {})

\* the exception a failed request surfaces as (raise_for_status, requests,
\* response.json)
ExcOf(g) ==
    CASE g \in {"401", "http"} -> "HTTPError"
      [] g = "net"             -> "ConnectionError"
      [] OTHER                 -> "JSONDecodeError"

SendHandled_mut(exc) == exc = "HTTPError"

\* send_auto_reply: except Exception around get_access_token; except
\* HTTPError / RequestException / Exception around the POST
SendHandled(exc) == exc \in {"HTTPError", "ConnectionError", "JSONDecodeError"}

\* ------------------------------------------------------------------------
\* check_for_updates: one poll cycle of thread t
\* ------------------------------------------------------------------------

\* get_chats: token, GET, {"chats": []} and last_error on any failure
\* (res: the token call's result, g: the GET's outcome, "skip" without token)
GetChats(res, e, g) ==
    /\ GetAccessToken("monitor", res, e)
    /\ g \in (IF TokenOk(res) THEN ApiOutcomes ELSE {"skip"})
    /\ rejected' = [rejected EXCEPT !["monitor"] =
                        IF g = "401" THEN TRUE ELSE IF res = "cached" THEN @ ELSE FALSE]

BeginCycle(t) ==
    /\ th[t].pc = "idle"
    /\ th' = [th EXCEPT ![t] = [IdleThread EXCEPT !.pc = "fetch"]]

\* get_unread_messages: chats_data = self.get_chats(unread_only=False)
Fetch(t) ==
    /\ th[t].pc = "fetch"
    /\ \E res \in TokenResults("monitor") : \E e \in ExpiresInFor(res) :
       \E g \in ApiOutcomes \cup {"skip"} :
         /\ GetChats(res, e, g)
         /\ IF g = "ok"
            THEN /\ th' = [th EXCEPT ![t].pc = "scan", ![t].idx = 1,
                                     ![t].page = Page(BATCH_SIZE, 0),
                                     ![t].due = Qualifying]
                 /\ UNCHANGED last_error
            ELSE /\ th' = [th EXCEPT ![t].pc = "scan", ![t].idx = 1,
                                     ![t].page = ChatsOnError, ![t].err = TRUE,
                                     ![t].fetch_failed = TRUE]
                 /\ last_error' = "Error getting chats"
    /\ UNCHANGED <<inbox, now, state_file, snapshot, processed_message_ids,
                   sent_replies, auto_reply_enabled, last_unread_count,
                   svc, surfaced, sends, posts, okPosts, failedSends,
                   crash>>

\* get_unread_messages: one iteration of "for chat in chats". For a new
\* message the iteration takes two steps, the test of l.723 and then the
\* append and add of l.736-739, between which another thread can run
ScanChat(t) ==
    /\ th[t].pc \in {"scan", "add"}
    /\ th[t].idx <= Len(th[t].page)
    /\ LET chat == th[t].page[th[t].idx]
           m == chat.last
       IN IF th[t].pc = "scan" /\ m # NoMsg /\ IsUnreadIncoming(m) /\ IsNewMessage(m)
          THEN /\ th' = [th EXCEPT ![t].pc = "add"]
               /\ UNCHANGED processed_message_ids
          ELSE IF th[t].pc = "add"
          THEN /\ th' = [th EXCEPT ![t].pc = "scan", ![t].idx = @ + 1,
                           ![t].unread = Append(@,
                              [chat_id |-> chat.id, message_id |-> m,
                               is_system |-> is_system_message(TextOf(m))])]
               /\ processed_message_ids' = AddProcessed(processed_message_ids, m)
          ELSE /\ th' = [th EXCEPT ![t].idx = @ + 1]
               /\ UNCHANGED processed_message_ids
    /\ UNCHANGED <<inbox, now, issued, state_file, snapshot, sent_replies,
                   access_token, token_expires, auto_reply_enabled, last_error,
                   last_unread_count, svc, surfaced, sends, posts,
                   okPosts, failedSends, rejected, crash>>
    /\ lastTokenCall' = NoCall

\* get_unread_messages returns (after saving the ids when it found messages);
\* check_for_updates updates the statistics, logs the new messages and decides
\* whether to reply; an exception of the log lines goes to its handler, which
\* records it and returns the empty triple
AfterScan(r, unread) ==
    IF ~LogRaises(unread)
    THEN [r EXCEPT !.pc = IF ShouldReply(unread) THEN "reply" ELSE "allchats",
                   !.ridx = 1, !.page = <<>>, !.idx = 0]
    ELSE IF Handled("TypeError")
    THEN [r EXCEPT !.pc = "done", !.ret = "empty", !.err = TRUE,
                   !.unread = <<>>, !.page = <<>>, !.idx = 0]
    ELSE [r EXCEPT !.pc = "raised", !.err = TRUE,
                   !.unread = <<>>, !.page = <<>>, !.idx = 0]

ScanEnd(t) ==
    /\ th[t].pc = "scan"
    /\ th[t].idx > Len(th[t].page)
    /\ LET unread == th[t].unread
       IN /\ IF ShouldSaveProcessed(unread)
             THEN \E io \in IoOutcomes : \E kept \in PersistedIds(processed_message_ids) :
                    /\ state_file' = SaveProcessedIds(state_file, kept, io)
                    /\ th' = [th EXCEPT ![t] =
                                AfterScan([@ EXCEPT !.flushed = TRUE], unread)]
             ELSE /\ UNCHANGED state_file
                  /\ th' = [th EXCEPT ![t] = AfterScan(@, unread)]
          /\ surfaced' = [m \in InboundIds |->
                            IF /\ ~LogRaises(unread)
                               /\ \E i \in 1..Len(unread) : unread[i].message_id = m
                            THEN Min(surfaced[m] + 1, 2) ELSE surfaced[m]]
          /\ last_unread_count' = Len(unread)
          /\ last_error' = IF LogRaises(unread) /\ Handled("TypeError")
                           THEN "Error in check_for_updates" ELSE last_error
    /\ UNCHANGED <<inbox, now, issued, snapshot, processed_message_ids,
                   sent_replies, access_token, token_expires,
                   auto_reply_enabled, svc, sends, posts,
                   okPosts, failedSends, rejected, crash>>
    /\ lastTokenCall' = NoCall

\* process_auto_replies: on to the next regular message, or out of the loop
NextReply(r) ==
    [r EXCEPT !.ridx = @ + 1,
              !.pc = IF r.ridx + 1 > Len(RegularMessages(r.unread))
                     THEN "allchats" ELSE "reply"]

\* an exception leaves process_auto_replies: the handler of check_for_updates
\* records it and returns the empty triple
Aborted(r, exc) ==
    IF Handled(exc)
    THEN [r EXCEPT !.pc = "done", !.ret = "empty", !.err = TRUE,
                   !.unread = <<>>, !.ridx = 0]
    ELSE [r EXCEPT !.pc = "raised", !.err = TRUE, !.unread = <<>>, !.ridx = 0]

\* send_auto_reply hit exception exc: its handlers return {"error": ...} and
\* process_auto_replies goes on with the next message
AfterSendError(r, exc) ==
    IF SendHandled(exc) THEN NextReply(r) ELSE Aborted(r, exc)

\* process_auto_replies calls send_auto_reply for the next regular message:
\* the already-replied check, then the token
ReplyBegin(t) ==
    /\ th[t].pc = "reply"
    /\ LET msg == RegularMessages(th[t].unread)[th[t].ridx]
       IN /\ sends' = [sends EXCEPT ![msg.message_id] = Min(@ + 1, 2)]
          /\ IF AlreadyReplied(msg.chat_id)
             THEN /\ th' = [th EXCEPT ![t] = NextReply(@)]
                  /\ lastTokenCall' = NoCall
                  /\ UNCHANGED <<access_token, token_expires, issued,
                                 failedSends, rejected>>
             ELSE \E res \in TokenResults("replier") : \E e \in ExpiresInFor(res) :
                    /\ GetAccessToken("replier", res, e)
                    /\ rejected' = [rejected EXCEPT !["replier"] =
                                        IF res = "ok" THEN FALSE ELSE @]
                    /\ IF TokenOk(res)
                       THEN /\ th' = [th EXCEPT ![t].pc = "post"]
                            /\ UNCHANGED failedSends
                       ELSE /\ th' = [th EXCEPT ![t] = AfterSendError(@, ExcOf(res))]
                            /\ failedSends' = failedSends \cup {msg.message_id}
    /\ last_error' = IF th'[t].ret = "empty" THEN "Error in check_for_updates"
                     ELSE last_error
    /\ UNCHANGED <<inbox, now, state_file, snapshot, processed_message_ids,
                   sent_replies, auto_reply_enabled,
                   last_unread_count, svc, surfaced, posts, okPosts,
                   crash>>

\* send_auto_reply: requests.post(url, ...), raise_for_status and
\* response.json(), and the handlers of what they raise
ReplyPost(t) ==
    /\ th[t].pc = "post"
    /\ LET msg == RegularMessages(th[t].unread)[th[t].ridx]
           c == msg.chat_id
       IN \E g \in PostOutcomes :
            /\ posts' = [posts EXCEPT ![c] = Min(@ + 1, Len(ChatMsgs[c]) + 1)]
            /\ IF g \in {"ok", "badjson"}
               THEN /\ okPosts' = [okPosts EXCEPT ![c] = Min(@ + 1, 2)]
                    /\ inbox' = [inbox EXCEPT ![c].last = ReplyMsg[c]]
               ELSE UNCHANGED <<okPosts, inbox>>
            /\ IF g = "ok"
               THEN /\ th' = [th EXCEPT ![t].pc = "mark"]
                    /\ UNCHANGED <<failedSends, rejected>>
               ELSE /\ failedSends' = failedSends \cup {msg.message_id}
                    /\ rejected' = [rejected EXCEPT !["replier"] = @ \/ g = "401"]
                    /\ th' = [th EXCEPT ![t] = AfterSendError(@, ExcOf(g))]
    /\ last_error' = IF th'[t].ret = "empty" THEN "Error in check_for_updates"
                     ELSE last_error
    /\ UNCHANGED <<now, issued, state_file, snapshot, processed_message_ids,
                   sent_replies, access_token, token_expires,
                   auto_reply_enabled, last_unread_count, svc, surfaced, sends, crash>>
    /\ lastTokenCall' = NoCall

\* send_auto_reply after the remote accepted the POST:
\* self.sent_replies.add(chat_id); self._save_sent_replies(); return result
ReplyMark(t) ==
    /\ th[t].pc = "mark"
    /\ LET msg == RegularMessages(th[t].unread)[th[t].ridx]
       IN \E io \in IoOutcomes :
            /\ sent_replies' = MarkReplied(sent_replies, msg.chat_id)
            /\ state_file' = SaveSentReplies(state_file, sent_replies', io)
            /\ th' = [th EXCEPT ![t] =
                        NextReply([@ EXCEPT !.results = Append(@, msg.chat_id)])]
    /\ UNCHANGED <<inbox, now, issued, snapshot, processed_message_ids,
                   access_token, token_expires, auto_reply_enabled, last_error,
                   last_unread_count, svc, surfaced, sends, posts,
                   okPosts, failedSends, rejected, crash>>
    /\ lastTokenCall' = NoCall

LastPage_mut(chats, all) ==
    \/ chats = <<>>
    \/ Len(chats) < BATCH_SIZE

\* get_all_chats: the three breaks of the pagination loop
LastPage(chats, all) ==
    \/ chats = <<>>
    \/ Len(all) >= MAX_CHATS
    \/ Len(chats) < BATCH_SIZE

\* get_all_chats: one iteration of "while True"
AllChatsPage(t) ==
    /\ th[t].pc = "allchats"
    /\ \E res \in TokenResults("monitor") : \E e \in ExpiresInFor(res) :
       \E g \in ApiOutcomes \cup {"skip"} :
         /\ GetChats(res, e, g)
         /\ LET chats == IF g = "ok" THEN Page(BATCH_SIZE, th[t].offset)
                         ELSE ChatsOnError
                all == th[t].all \o
                         [i \in 1..Len(chats) |-> [id |-> chats[i].id, pos |-> chats[i].pos]]
            IN /\ last_error' = IF g = "ok" THEN last_error ELSE "Error getting chats"
               /\ th' = [th EXCEPT
                     ![t].err = @ \/ g # "ok",
                     ![t].all = IF Len(all) >= MAX_CHATS
                                THEN SubSeq(all, 1, MAX_CHATS) ELSE all,
                     ![t].offset = IF LastPage(chats, all) THEN @ ELSE @ + BATCH_SIZE,
                     ![t].pc = IF LastPage(chats, all) THEN "snapshot" ELSE "allchats"]
    /\ UNCHANGED <<inbox, now, state_file, snapshot, processed_message_ids,
                   sent_replies, auto_reply_enabled, last_unread_count,
                   svc, surfaced, sends, posts, okPosts, failedSends,
                   crash>>

\* check_for_updates: write the chats to JSON_FILENAME, then
\* self.stats['last_error'] = None and return the triple
SnapshotWrite(t) ==
    /\ th[t].pc = "snapshot"
    /\ \E io \in IoOutcomes :
         /\ snapshot' = IF io = "ok" THEN th[t].all ELSE snapshot
         /\ th' = [th EXCEPT ![t].pc = "done", ![t].err = @ \/ io # "ok",
                             ![t].ret = "triple",
                             ![t].offset = 0, ![t].ridx = 0]
    /\ last_error' = NoError
    /\ UNCHANGED <<inbox, now, issued, state_file, processed_message_ids,
                   sent_replies, access_token, token_expires,
                   auto_reply_enabled, last_unread_count, svc,
                   surfaced, sends, posts, okPosts, failedSends, rejected, crash>>
    /\ lastTokenCall' = NoCall

\* the caller of check_for_updates has the triple
Return(t) ==
    /\ th[t].pc = "done"
    /\ th' = [th EXCEPT ![t] = IdleThread]
    /\ UNCHANGED <<inbox, now, issued, state_file, snapshot,
                   processed_message_ids, sent_replies, access_token,
                   token_expires, auto_reply_enabled, last_error,
                   last_unread_count, svc, surfaced, sends, posts,
                   okPosts, failedSends, rejected, crash>>
    /\ lastTokenCall' = NoCall

\* ------------------------------------------------------------------------
\* Spec: poll cycles executed one after another by one caller
\* ------------------------------------------------------------------------

Poll ==
    /\ BeginCycle("loop")
    /\ UNCHANGED <<inbox, now, issued, state_file, snapshot,
                   processed_message_ids, sent_replies, access_token,
                   token_expires, auto_reply_enabled, last_error,
                   last_unread_count, svc, surfaced, sends, posts,
                   okPosts, failedSends, rejected, crash>>
    /\ lastTokenCall' = NoCall

Next ==
    \/ \E c \in ChatIds : Arrive(c)
    \/ Poll
    \/ Fetch("loop")
    \/ ScanChat("loop")
    \/ ScanEnd("loop")
    \/ ReplyBegin("loop")
    \/ ReplyPost("loop")
    \/ ReplyMark("loop")
    \/ AllChatsPage("loop")
    \/ SnapshotWrite("loop")
    \/ Return("loop")

Spec == Init /\ [][Next]_vars

\* ------------------------------------------------------------------------
\* SpecToken: the same cycles while the clock advances (one chat has messages)
\* ------------------------------------------------------------------------

\* auto-reply is enabled (the default of config.py)
InitToken == Init /\ auto_reply_enabled

NextToken ==
    \/ Arrive("c1")
    \/ Tick
    \/ Poll
    \/ Fetch("loop")
    \/ ScanChat("loop")
    \/ ScanEnd("loop")
    \/ ReplyBegin("loop")
    \/ ReplyPost("loop")
    \/ ReplyMark("loop")
    \/ AllChatsPage("loop")
    \/ SnapshotWrite("loop")
    \/ Return("loop")

SpecToken == InitToken /\ [][NextToken]_vars

\* ------------------------------------------------------------------------
\* SpecPages: the same cycles on accounts whose listing has up to five pages
\* ------------------------------------------------------------------------

\* the first message of each chat is waiting when the monitor is constructed
FirstWaiting ==
    [c \in ChatIds |-> [n |-> 1, last |-> ChatMsgs[c][1]]]

InitPages ==
    /\ pad \in PadSet
    /\ inbox = FirstWaiting
    /\ now = 0
    /\ issued = 0
    /\ state_file = NoFile
    /\ snapshot = <<>>
    /\ disk_faulty = FALSE
    /\ remote_faulty = TRUE
    /\ body_faulty = FALSE
    /\ processed_message_ids = {}
    /\ sent_replies = {}
    /\ access_token = [i \in Insts |-> NoToken]
    /\ token_expires = [i \in Insts |-> 0]
    /\ auto_reply_enabled \in BOOLEAN
    /\ last_error = NoError
    /\ last_unread_count = 0
    /\ th = [t \in Threads |-> IdleThread]
    /\ running = FALSE
    /\ interval = NoInterval
    /\ thread = "none"
    /\ loop = [L \in LoopThreads |-> NoLoop]
    /\ service_stats = NoStats
    /\ stopping = FALSE
    /\ startCalls = 0
    /\ surfaced = [m \in InboundIds |-> 0]
    /\ sends = [m \in InboundIds |-> 0]
    /\ posts = [c \in ChatIds |-> 0]
    /\ okPosts = [c \in ChatIds |-> 0]
    /\ failedSends = {}
    /\ rejected = [i \in Insts |-> FALSE]
    /\ lastTokenCall = NoCall
    /\ restarts = 0
    /\ checkNows = 0
    /\ repliedAtCrash = {}
    /\ arg = NoArg
    /\ result = NoResult
    /\ reset = NoReset

NextPages ==
    \/ Poll
    \/ Fetch("loop")
    \/ ScanChat("loop")
    \/ ScanEnd("loop")
    \/ ReplyBegin("loop")
    \/ ReplyPost("loop")
    \/ ReplyMark("loop")
    \/ AllChatsPage("loop")
    \/ SnapshotWrite("loop")
    \/ Return("loop")

SpecPages == InitPages /\ [][NextPages]_vars

\* ------------------------------------------------------------------------
\* SpecCrash: the process dies at any step and is started again
\* (one chat has messages)
\* ------------------------------------------------------------------------

\* _load_processed_ids / _load_sent_replies
LoadProcessedIds(file) == IF file.exists THEN file.processed ELSE {}
LoadSentReplies(file) == IF file.exists THEN file.sent ELSE {}

\* the process is killed (whatever it was doing) and constructed anew:
\* AutoReplyManager.__init__ and AvitoChatMonitor.__init__ load the state file
CrashRestart ==
    /\ restarts < MaxRestarts
    /\ restarts' = restarts + 1
    /\ repliedAtCrash' = repliedAtCrash \cup {c \in ChatIds : okPosts[c] > 0}
    /\ processed_message_ids' = LoadProcessedIds(state_file)
    /\ sent_replies' = LoadSentReplies(state_file)
    /\ access_token' = [i \in Insts |-> NoToken]
    /\ token_expires' = [i \in Insts |-> 0]
    /\ issued' = 0      \* tokens are numbered within one life of the process
    /\ rejected' = [i \in Insts |-> FALSE]
    /\ last_error' = NoError
    /\ last_unread_count' = 0
    /\ th' = [t \in Threads |-> IdleThread]
    /\ lastTokenCall' = NoCall
    /\ UNCHANGED <<inbox, pad, now, state_file, snapshot, disk_faulty, remote_faulty,
                   body_faulty,
                   auto_reply_enabled, svc, surfaced, sends, posts, okPosts,
                   failedSends, checkNows, arg, result, reset>>

NextCrash ==
    \/ Arrive("c1")
    \/ Poll
    \/ Fetch("loop")
    \/ ScanChat("loop")
    \/ ScanEnd("loop")
    \/ ReplyBegin("loop")
    \/ ReplyPost("loop")
    \/ ReplyMark("loop")
    \/ AllChatsPage("loop")
    \/ SnapshotWrite("loop")
    \/ Return("loop")
    \/ CrashRestart

SpecCrash == InitToken /\ [][NextCrash]_vars

\* ------------------------------------------------------------------------
\* MonitorService: start, stop, the loop threads, check_now
\* ------------------------------------------------------------------------

\* an interval: s whole seconds, f a fraction of a second on top, or infinity
\* (the HTTP start endpoint passes float(interval))
Secs(n) == [s |-> n, f |-> FALSE, inf |-> FALSE]
HalfSecond == [s |-> 0, f |-> TRUE, inf |-> FALSE]
Infinite == [s |-> 0, f |-> FALSE, inf |-> TRUE]

\* the intervals start() is called with
IntervalSet == {Secs(2), HalfSecond, Infinite}

Max(a, b) == IF a > b THEN a ELSE b

\* _run_monitoring_loop: sleep_time after a cycle; interval // 2 is the floor
\* of the half, nan for infinity, and max(10, nan) is 10
SleepTime(i, last_unread) ==
    IF last_unread > 0
    THEN IF i.inf THEN Secs(MIN_ACTIVE_SLEEP)
         ELSE Secs(Max(MIN_ACTIVE_SLEEP, i.s \div 2))
    ELSE i

\* range(int(sleep_time)): int() drops the fraction and raises OverflowError
\* for infinity
IntRaises(d) == d.inf
SleepTicks(d) == d.s

AlreadyRunning_mut(r) == FALSE

\* start: if self.running: return True
AlreadyRunning(r) == r

LoopContinues_mut(r) == TRUE

\* _run_monitoring_loop: while self.running
LoopContinues(r) == r

StatsAfterCheckNow_mut(stats, raised) ==
    [stats EXCEPT !.total_cycles = Min(@ + 1, MaxCycles)]

\* check_now: service_stats is touched only by its exception handler
StatsAfterCheckNow(stats, raised) ==
    IF raised THEN [stats EXCEPT !.last_error = "Error in immediate check"]
    ELSE stats

rest == <<inbox, pad, now, issued, state_file, snapshot, processed_message_ids,
          sent_replies, access_token, token_expires, auto_reply_enabled,
          last_error, last_unread_count, surfaced, sends, posts, okPosts,
          failedSends, rejected, disk_faulty, remote_faulty, body_faulty, restarts,
          repliedAtCrash, arg, result, reset>>

\* the Thread object a start() creates (two can be alive at a time here)
FreeLoop == IF loop["loop"].pc \in {"none", "exited"} THEN "loop" ELSE "loop2"

\* start(interval)
Start(i) ==
    /\ ~stopping
    /\ startCalls < MaxStarts
    /\ startCalls' = startCalls + 1
    /\ IF AlreadyRunning(running)
       THEN UNCHANGED <<service_stats, interval, thread, running, loop>>
       ELSE /\ loop[FreeLoop].pc \in {"none", "exited"}
            /\ service_stats' = [service_stats EXCEPT !.start_attempts = @ + 1,
                                                      !.thread_alive = TRUE]
            /\ interval' = i
            /\ thread' = FreeLoop
            /\ running' = TRUE
            /\ loop' = [loop EXCEPT ![FreeLoop] = [NoLoop EXCEPT !.pc = "top",
                                                                !.interval = i]]
    /\ lastTokenCall' = NoCall
    /\ UNCHANGED <<rest, checkNows, th, stopping>>

\* stop(): self.running = False, then self.thread.join(timeout=10)
Stop ==
    /\ ~stopping
    /\ running
    /\ running' = FALSE
    /\ stopping' = TRUE
    /\ loop' = [L \in LoopThreads |->
                  IF loop[L].pc = "check" THEN [loop[L] EXCEPT !.midstop = TRUE]
                  ELSE loop[L]]
    /\ lastTokenCall' = NoCall
    /\ UNCHANGED <<rest, checkNows, startCalls, th, interval, thread, service_stats>>

\* stop(): the join is over (the thread finished, or the 10 s went by while it
\* was still in its cycle); thread_alive = False; return
JoinOver ==
    \/ thread = "none"
    \/ loop[thread].pc \in {"none", "exited"}
    \/ loop[thread].pc = "check"

StopReturn ==
    /\ stopping
    /\ JoinOver
    /\ stopping' = FALSE
    /\ service_stats' = [service_stats EXCEPT !.thread_alive = FALSE]
    /\ lastTokenCall' = NoCall
    /\ UNCHANGED <<rest, checkNows, startCalls, th, interval, thread, running, loop>>

\* while self.running: cycle_count += 1; total_cycles += 1;
\* self.monitor.check_for_updates()
LoopTop(L) ==
    /\ loop[L].pc = "top"
    /\ IF LoopContinues(running)
       THEN /\ service_stats.total_cycles < MaxCycles
            /\ service_stats' = [service_stats EXCEPT !.total_cycles = @ + 1]
            /\ BeginCycle(L)
            /\ loop' = [loop EXCEPT ![L].pc = "check", ![L].cycle_count = @ + 1]
       ELSE /\ loop' = [loop EXCEPT ![L].pc = "exit", ![L].why = "stopped"]
            /\ UNCHANGED <<service_stats, th>>
    /\ lastTokenCall' = NoCall
    /\ UNCHANGED <<rest, checkNows, startCalls, running, interval, thread, stopping>>

\* check_for_updates is over: successful_cycles += 1 (failed_cycles += 1 in
\* the handler when it raised); then sleep_time and range(int(sleep_time)),
\* whose exception ends the loop through the outer handler
LoopAfterCheck(L) ==
    /\ loop[L].pc = "check"
    /\ th[L].pc \in {"done", "raised"}
    /\ LET d == SleepTime(loop[L].interval, last_unread_count)
           counted == IF th[L].pc = "done"
                      THEN [service_stats EXCEPT !.successful_cycles = @ + 1]
                      ELSE [service_stats EXCEPT !.failed_cycles = @ + 1,
                                                 !.last_error = "Error in monitoring cycle"]
       IN IF IntRaises(d)
          THEN /\ loop' = [loop EXCEPT ![L].pc = "exit", ![L].why = "error"]
               /\ service_stats' = [counted EXCEPT !.last_error = "Fatal error in monitoring thread"]
          ELSE /\ loop' = [loop EXCEPT ![L].pc = "sleep", ![L].sleep = SleepTicks(d),
                                       ![L].planned = SleepTicks(d),
                                       ![L].found = last_unread_count]
               /\ service_stats' = counted
    /\ th' = [th EXCEPT ![L] = IdleThread]
    /\ lastTokenCall' = NoCall
    /\ UNCHANGED <<rest, checkNows, startCalls, running, interval, thread, stopping>>

\* for i in range(int(sleep_time)): if not self.running: break; time.sleep(1)
LoopSleep(L) ==
    /\ loop[L].pc = "sleep"
    /\ loop' = IF loop[L].sleep = 0 \/ ~running
               THEN [loop EXCEPT ![L].pc = "top", ![L].sleep = 0,
                                 ![L].planned = 0, ![L].found = 0]
               ELSE [loop EXCEPT ![L].sleep = @ - 1]
    /\ lastTokenCall' = NoCall
    /\ UNCHANGED <<rest, checkNows, startCalls, th, running, interval, thread,
                   stopping, service_stats>>

\* finally: self.running = False; thread_alive = False
LoopExit(L) ==
    /\ loop[L].pc = "exit"
    /\ loop' = [loop EXCEPT ![L].pc = "exited"]
    /\ running' = FALSE
    /\ service_stats' = [service_stats EXCEPT !.thread_alive = FALSE]
    /\ lastTokenCall' = NoCall
    /\ UNCHANGED <<rest, checkNows, startCalls, th, interval, thread, stopping>>

\* check_now(): self.monitor.check_for_updates() on the caller's thread
CheckNow ==
    /\ checkNows < MaxChecks
    /\ checkNows' = checkNows + 1
    /\ BeginCycle("api")
    /\ lastTokenCall' = NoCall
    /\ UNCHANGED <<rest, svc>>

\* check_now(): return result (None from the handler when the cycle raised)
CheckNowReturn ==
    /\ th["api"].pc \in {"done", "raised"}
    /\ th' = [th EXCEPT !["api"] = IdleThread]
    /\ service_stats' = StatsAfterCheckNow(service_stats, th["api"].pc = "raised")
    /\ lastTokenCall' = NoCall
    /\ UNCHANGED <<rest, checkNows, startCalls, running, interval, thread,
                   stopping, loop>>

\* one cycle step of thread t
CycleStep(t) ==
    \/ Fetch(t)
    \/ ScanChat(t)
    \/ ScanEnd(t)
    \/ ReplyBegin(t)
    \/ ReplyPost(t)
    \/ ReplyMark(t)
    \/ AllChatsPage(t)
    \/ SnapshotWrite(t)

\* ------------------------------------------------------------------------
\* SpecConc: the loop thread and a check_now caller; the service was created
\* while the first message of c1 was waiting, and is started or not
\* (the remote answers every request)
\* ------------------------------------------------------------------------

\* MonitorService after start(i)
StartedWith(i) ==
    /\ running = TRUE
    /\ interval = i
    /\ thread = "loop"
    /\ loop = [L \in LoopThreads |->
                 IF L = "loop" THEN [NoLoop EXCEPT !.pc = "top", !.interval = i]
                 ELSE NoLoop]
    /\ service_stats = [NoStats EXCEPT !.start_attempts = 1, !.thread_alive = TRUE]
    /\ startCalls = 1

\* MonitorService after start(2)
Started == StartedWith(Secs(2))

\* MonitorService after __init__
NotStarted ==
    /\ running = FALSE
    /\ interval = NoInterval
    /\ thread = "none"
    /\ loop = [L \in LoopThreads |-> NoLoop]
    /\ service_stats = NoStats
    /\ startCalls = 0

InitFaults(first, reply, faulty, disk) ==
    /\ inbox = first
    /\ pad = 0
    /\ now = 0
    /\ issued = 0
    /\ state_file = NoFile
    /\ snapshot = <<>>
    /\ disk_faulty = disk
    /\ remote_faulty = faulty
    /\ body_faulty = FALSE
    /\ processed_message_ids = {}
    /\ sent_replies = {}
    /\ access_token = [i \in Insts |-> NoToken]
    /\ token_expires = [i \in Insts |-> 0]
    /\ auto_reply_enabled = reply
    /\ last_error = NoError
    /\ last_unread_count = 0
    /\ th = [t \in Threads |-> IdleThread]
    /\ stopping = FALSE
    /\ surfaced = [m \in InboundIds |-> 0]
    /\ sends = [m \in InboundIds |-> 0]
    /\ posts = [c \in ChatIds |-> 0]
    /\ okPosts = [c \in ChatIds |-> 0]
    /\ failedSends = {}
    /\ rejected = [i \in Insts |-> FALSE]
    /\ lastTokenCall = NoCall
    /\ restarts = 0
    /\ checkNows = 0
    /\ repliedAtCrash = {}

\* the same with a state file and a snapshot file that can be read and written
InitMonitor(first, reply, faulty) ==
    /\ InitFaults(first, reply, faulty, FALSE)
    /\ arg = NoArg
    /\ result = NoResult
    /\ reset = NoReset

\* no message has arrived yet
NoneWaiting == [c \in ChatIds |-> [n |-> 0, last |-> NoMsg]]

\* the first message of chat c1 is waiting
OneWaiting ==
    [c \in ChatIds |->
        IF c = "c1" THEN [n |-> 1, last |-> ChatMsgs[c][1]]
        ELSE [n |-> 0, last |-> NoMsg]]

InitConc ==
    /\ InitMonitor(OneWaiting, TRUE, FALSE)
    /\ (Started \/ NotStarted)

NextConc ==
    \/ Stop
    \/ StopReturn
    \/ LoopTop("loop")
    \/ LoopAfterCheck("loop")
    \/ LoopSleep("loop")
    \/ LoopExit("loop")
    \/ CheckNow
    \/ CheckNowReturn
    \/ CycleStep("loop")
    \/ CycleStep("api")

SpecConc == InitConc /\ [][NextConc]_vars

\* ------------------------------------------------------------------------
\* SpecLoop: the started loop thread and stop(), while requests to the remote
\* can fail (the first message of c1 is waiting)
\* ------------------------------------------------------------------------

InitLoop ==
    /\ InitMonitor(OneWaiting, TRUE, TRUE)
    /\ Started

NextLoop ==
    \/ Stop
    \/ StopReturn
    \/ LoopTop("loop")
    \/ LoopAfterCheck("loop")
    \/ LoopSleep("loop")
    \/ LoopExit("loop")
    \/ CycleStep("loop")

SpecLoop == InitLoop /\ [][NextLoop]_vars

\* ------------------------------------------------------------------------
\* SpecSched: start() and stop() calls and the loop threads they create
\* (no message arrives, the remote answers every request)
\* ------------------------------------------------------------------------

InitSched ==
    /\ InitMonitor(NoneWaiting, FALSE, FALSE)
    /\ NotStarted

LoopStep(L) ==
    \/ LoopTop(L)
    \/ LoopAfterCheck(L)
    \/ LoopSleep(L)
    \/ LoopExit(L)
    \/ Fetch(L)
    \/ ScanChat(L)
    \/ ScanEnd(L)
    \/ AllChatsPage(L)
    \/ SnapshotWrite(L)

NextSched ==
    \/ \E i \in IntervalSet : Start(i)
    \/ Stop
    \/ StopReturn
    \/ \E L \in LoopThreads : LoopStep(L)

SpecSched == InitSched /\ [][NextSched]_vars

\* ------------------------------------------------------------------------
\* SpecStop: the service was started once; stop() is called at any moment and
\* start() is not called again. The operating system schedules the loop
\* thread whenever it can take a step.
\* ------------------------------------------------------------------------

InitStop ==
    /\ InitMonitor(OneWaiting, FALSE, TRUE)
    /\ \E i \in IntervalSet : StartedWith(i)

NextStop ==
    \/ Stop
    \/ StopReturn
    \/ LoopStep("loop")

SpecStop == InitStop /\ [][NextStop]_vars /\ WF_vars(LoopStep("loop"))

\* ------------------------------------------------------------------------
\* SpecDisk: sequential cycles while any read or write of the state file and
\* of the snapshot file can fail (one chat has messages)
\* ------------------------------------------------------------------------

InitDisk ==
    /\ InitFaults(NoneWaiting, TRUE, TRUE, TRUE)
    /\ arg = NoArg
    /\ result = NoResult
    /\ reset = NoReset
    /\ NotStarted

NextDisk ==
    \/ Arrive("c1")
    \/ Poll
    \/ CycleStep("loop")
    \/ Return("loop")

SpecDisk == InitDisk /\ [][NextDisk]_vars

\* ------------------------------------------------------------------------
\* SpecReset, SpecRace: sequential cycles and calls of reset_processed_ids
\* from the HTTP thread (one chat has messages, the remote answers every
\* request). In SpecReset a call runs between two steps of the cycle; in
\* SpecRace the read and the write of its _save_processed_ids are two steps.
\* ------------------------------------------------------------------------

\* self.processed_message_ids = set(); _save_processed_ids reads the file
ResetBegin ==
    /\ reset.pc = "idle"
    /\ reset.calls < MaxResets
    /\ processed_message_ids' = {}
    /\ reset' = [pc |-> "write", state |-> state_file, calls |-> reset.calls + 1]
    /\ lastTokenCall' = NoCall
    /\ UNCHANGED <<inbox, now, issued, state_file, snapshot, sent_replies,
                   access_token, token_expires, auto_reply_enabled, last_error,
                   last_unread_count, th, svc, surfaced, sends, posts, okPosts,
                   failedSends, rejected, pad, disk_faulty, remote_faulty,
                   body_faulty, restarts, repliedAtCrash, checkNows, arg, result>>

\* _save_processed_ids puts the ids into the state it read and writes it
ResetWrite ==
    /\ reset.pc = "write"
    /\ \E io \in IoOutcomes : \E kept \in PersistedIds(processed_message_ids) :
          state_file' = IF io = "ok" THEN SaveProcessedIds(reset.state, kept, io)
                        ELSE state_file
    /\ reset' = [reset EXCEPT !.pc = "idle", !.state = NoFile]
    /\ lastTokenCall' = NoCall
    /\ UNCHANGED <<inbox, now, issued, snapshot, processed_message_ids,
                   sent_replies, access_token, token_expires, auto_reply_enabled,
                   last_error, last_unread_count, th, svc, surfaced, sends, posts,
                   okPosts, failedSends, rejected, pad, disk_faulty, remote_faulty,
                   body_faulty, restarts, repliedAtCrash, checkNows, arg, result>>

\* reset_processed_ids as one step
ResetProcessedIds ==
    /\ reset.pc = "idle"
    /\ reset.calls < MaxResets
    /\ processed_message_ids' = {}
    /\ \E io \in IoOutcomes :
          state_file' = SaveProcessedIds(state_file, {}, io)
    /\ reset' = [reset EXCEPT !.calls = @ + 1]
    /\ lastTokenCall' = NoCall
    /\ UNCHANGED <<inbox, now, issued, snapshot, sent_replies,
                   access_token, token_expires, auto_reply_enabled, last_error,
                   last_unread_count, th, svc, surfaced, sends, posts, okPosts,
                   failedSends, rejected, pad, disk_faulty, remote_faulty,
                   body_faulty, restarts, repliedAtCrash, checkNows, arg, result>>

InitReset ==
    /\ InitFaults(NoneWaiting, TRUE, FALSE, FALSE)
    /\ arg = NoArg
    /\ result = NoResult
    /\ reset = NoReset
    /\ NotStarted

NextReset ==
    \/ Arrive("c1")
    \/ Poll
    \/ CycleStep("loop")
    \/ Return("loop")
    \/ ResetProcessedIds

SpecReset == InitReset /\ [][NextReset]_vars

NextRace ==
    \/ Arrive("c1")
    \/ Poll
    \/ CycleStep("loop")
    \/ Return("loop")
    \/ ResetBegin
    \/ ResetWrite

SpecRace == InitReset /\ [][NextRace]_vars

\* ------------------------------------------------------------------------
\* SpecBatch: process_auto_replies(unread_messages) on every batch of up to
\* three new messages, the same chat possibly more than once; the remote can
\* fail, and can answer a POST with a body that is not JSON
\* ------------------------------------------------------------------------

\* the chat a message belongs to
ChatOf(m) == CHOOSE c \in ChatIds : \E k \in 1..Len(ChatMsgs[c]) : ChatMsgs[c][k] = m

\* get_unread_messages: message_data
Entry(m) == [chat_id |-> ChatOf(m), message_id |-> m,
             is_system |-> is_system_message(TextOf(m))]

\* the messages a batch can hold: check_for_updates has logged the text of its
\* first three entries before it calls process_auto_replies
BatchMsgs == {m \in InboundIds : ~NullText(m)}

\* the batches: no message twice, and a regular message among them
Batches ==
    {b \in UNION {[1..n -> BatchMsgs] : n \in 1..Cardinality(BatchMsgs)} :
        /\ \A i, j \in 1..Len(b) : b[i] = b[j] => i = j
        /\ \E i \in 1..Len(b) : ~Entry(b[i]).is_system}

BatchIds(b) == {b[i] : i \in 1..Len(b)}

\* the remote's view of a chat once the messages of the batch have arrived
InboxFor(b) ==
    [c \in ChatIds |->
        LET ks == {k \in 1..Len(ChatMsgs[c]) : ChatMsgs[c][k] \in BatchIds(b)}
        IN IF ks = {} THEN [n |-> 0, last |-> NoMsg]
           ELSE LET k == CHOOSE x \in ks : \A y \in ks : y <= x
                IN [n |-> k, last |-> ChatMsgs[c][k]]]

\* check_for_updates is about to call process_auto_replies with batch b:
\* the ids of b are marked and saved, nothing was replied to yet
InitBatch ==
    \E b \in Batches :
        /\ inbox = InboxFor(b)
        /\ pad = 0
        /\ now = 0
        /\ issued = 0
        /\ state_file = [exists |-> TRUE, processed |-> BatchIds(b), sent |-> {}]
        /\ snapshot = <<>>
        /\ disk_faulty = FALSE
        /\ remote_faulty = TRUE
        /\ body_faulty \in BOOLEAN
        /\ processed_message_ids = BatchIds(b)
        /\ sent_replies = {}
        /\ access_token = [i \in Insts |-> NoToken]
        /\ token_expires = [i \in Insts |-> 0]
        /\ auto_reply_enabled = TRUE
        /\ last_error = NoError
        /\ last_unread_count = Len(b)
        /\ th = [t \in Threads |->
                   IF t = "loop"
                   THEN [IdleThread EXCEPT !.pc = "reply", !.ridx = 1,
                                           !.unread = [i \in 1..Len(b) |-> Entry(b[i])],
                                           !.flushed = TRUE]
                   ELSE IdleThread]
        /\ NotStarted
        /\ stopping = FALSE
        /\ surfaced = [m \in InboundIds |-> IF m \in BatchIds(b) THEN 1 ELSE 0]
        /\ sends = [m \in InboundIds |-> 0]
        /\ posts = [c \in ChatIds |-> 0]
        /\ okPosts = [c \in ChatIds |-> 0]
        /\ failedSends = {}
        /\ rejected = [i \in Insts |-> FALSE]
        /\ lastTokenCall = NoCall
        /\ restarts = 0
        /\ checkNows = 0
        /\ repliedAtCrash = {}
        /\ arg = NoArg
        /\ result = NoResult
        /\ reset = NoReset

NextBatch ==
    \/ ReplyBegin("loop")
    \/ ReplyPost("loop")
    \/ ReplyMark("loop")

SpecBatch == InitBatch /\ [][NextBatch]_vars

\* ------------------------------------------------------------------------
\* SpecCap: a monitor that has surfaced about STATE_CAP messages, one per
\* cycle, and goes on surfacing one message per cycle. The message ids are
\* numbered here in the order in which they were inserted.
\* ------------------------------------------------------------------------

InitCap ==
    /\ \E n \in {STATE_CAP - 1, STATE_CAP} :
          /\ processed_message_ids = 1..n
          /\ state_file = [exists |-> TRUE, processed |-> 1..n, sent |-> {}]
    /\ inbox = NoneWaiting
    /\ pad = 0
    /\ now = 0
    /\ issued = 0
    /\ snapshot = <<>>
    /\ disk_faulty = FALSE
    /\ remote_faulty = FALSE
    /\ body_faulty = FALSE
    /\ sent_replies = {}
    /\ access_token = [i \in Insts |-> NoToken]
    /\ token_expires = [i \in Insts |-> 0]
    /\ auto_reply_enabled = FALSE
    /\ last_error = NoError
    /\ last_unread_count = 0
    /\ th = [t \in Threads |-> IdleThread]
    /\ NotStarted
    /\ stopping = FALSE
    /\ surfaced = [m \in InboundIds |-> 0]
    /\ sends = [m \in InboundIds |-> 0]
    /\ posts = [c \in ChatIds |-> 0]
    /\ okPosts = [c \in ChatIds |-> 0]
    /\ failedSends = {}
    /\ rejected = [i \in Insts |-> FALSE]
    /\ lastTokenCall = NoCall
    /\ restarts = 0
    /\ checkNows = 0
    /\ repliedAtCrash = {}
    /\ arg = NoArg
    /\ result = NoResult
    /\ reset = NoReset

\* get_unread_messages finds one new message: processed_message_ids.add,
\* then _save_processed_ids
NewIdSaved ==
    /\ Cardinality(processed_message_ids) <= STATE_CAP
    /\ LET message_id == Cardinality(processed_message_ids) + 1
       IN processed_message_ids' = AddProcessed(processed_message_ids, message_id)
    /\ \E io \in IoOutcomes : \E kept \in PersistedIds(processed_message_ids') :
          state_file' = SaveProcessedIds(state_file, kept, io)
    /\ last_unread_count' = 1
    /\ lastTokenCall' = NoCall
    /\ UNCHANGED <<inbox, now, issued, snapshot, sent_replies, access_token,
                   token_expires, auto_reply_enabled, last_error, th, svc,
                   surfaced, sends, posts, okPosts, failedSends, rejected, crash>>

SpecCap == InitCap /\ [][NewIdSaved]_vars

\* ------------------------------------------------------------------------
\* SpecName: extract_user_name(chat_data) on chat records whose fields are
\* missing, empty, blank, well formed or of the wrong type
\* ------------------------------------------------------------------------

\* a JSON value of a field: not there, null, a (non-zero) number, or a string,
\* which is a sequence of characters
Missing == [t |-> "missing", s |-> <<>>]
Null == [t |-> "null", s |-> <<>>]
Num == [t |-> "num", s |-> <<>>]
Str(s) == [t |-> "str", s |-> s]

\* bool(value)
Truthy(v) == v.t = "num" \/ (v.t = "str" /\ v.s # <<>>)

\* str(value)
StrOf(v) ==
    CASE v.t = "missing" -> <<>>
      [] v.t = "null"    -> <<"N", "o", "n", "e">>
      [] v.t = "num"     -> <<"7">>
      [] OTHER           -> v.s

\* str.strip()
RECURSIVE LStrip(_)
LStrip(s) == IF s # <<>> /\ Head(s) = " " THEN LStrip(Tail(s)) ELSE s
RECURSIVE RStrip(_)
RStrip(s) ==
    IF s # <<>> /\ s[Len(s)] = " " THEN RStrip(SubSeq(s, 1, Len(s) - 1)) ELSE s
Strip(s) == RStrip(LStrip(s))

\* the literals of extract_user_name
FromPrefix == <<"U", "s", "e", "r", " ", "f", "r", "o", "m", ":", " ">>
UserPrefix == <<"U", "s", "e", "r", "_">>
UnknownUser == <<"U", "n", "k", "n", "o", "w", "n", " ", "U", "s", "e", "r">>

\* how a step of the chain ends: it returns a name, it raises (AttributeError:
\* .strip or .get of a value that has none), or the chain goes on
Returned(s) == [out |-> "return", v |-> s]
Raised == [out |-> "raise", v |-> <<>>]
Fell == [out |-> "next", v |-> <<>>]

\* if value and value.strip(): return prefix + value.strip()
TryName(v, prefix) ==
    IF ~Truthy(v) THEN Fell
    ELSE IF v.t # "str" THEN Raised
    ELSE IF Strip(v.s) # <<>> THEN Returned(prefix \o Strip(v.s))
    ELSE Fell

\* for user in users: if isinstance(user, dict): name = user.get('name', {})
RECURSIVE FromUsers(_, _)
FromUsers(items, i) ==
    IF i > Len(items) THEN Fell
    ELSE IF ~items[i].dict THEN FromUsers(items, i + 1)
    ELSE LET r == TryName(items[i].name, <<>>)
         IN IF r.out = "next" THEN FromUsers(items, i + 1) ELSE r

\* chat_data.get('name') or chat_data.get('title')
Or(a, b) == IF Truthy(a) THEN a ELSE b

\* context = chat_data.get('context', {}); if context: context.get('item_title')
FromContext(c) ==
    IF c.t = "missing" THEN Fell
    ELSE IF c.t # "dict" THEN Raised
    ELSE TryName(c.item_title, FromPrefix)

\* chat_id = str(chat_data.get('id', '')); f"User_{chat_id[-8:]}"
LastResort(chat_data) ==
    LET chat_id == StrOf(chat_data.id)
    IN IF chat_id # <<>> /\ Len(chat_id) > 10
       THEN UserPrefix \o SubSeq(chat_id, Len(chat_id) - 7, Len(chat_id))
       ELSE UnknownUser

\* the try block runs the three steps in turn; an exception in any of them
\* goes to the handler, after which only the last resort is left
extract_user_name(chat_data) ==
    LET users == chat_data.users
        u == IF users.t = "list" /\ users.items # <<>>
             THEN FromUsers(users.items, 1) ELSE Fell
        n == IF u.out = "next"
             THEN TryName(Or(chat_data.name, chat_data.title), <<>>) ELSE u
        c == IF n.out = "next" THEN FromContext(chat_data.context) ELSE n
    IN IF c.out = "return" THEN c.v ELSE LastResort(chat_data)

\* the inputs: the participants ...
UserSet ==
    {[dict |-> FALSE, name |-> Missing]} \cup
    {[dict |-> TRUE, name |-> v] :
        v \in {Missing, Str(<<>>), Str(<<" ", " ">>), Str(<<" ", "A", "n", "n", " ">>), Num}}
UsersSet ==
    {[t |-> "missing", items |-> <<>>], [t |-> "num", items |-> <<>>]} \cup
    {[t |-> "list", items |-> items] :
        items \in {<<>>} \cup {<<u>> : u \in UserSet}
                         \cup {<<u, w>> : u \in UserSet, w \in UserSet}}
\* ... the chat's name and title, its context and its id (of 10 and of 11
\* characters)
NameSet == {Missing, Str(<<" ", " ">>), Str(<<"S", "h", "o", "p">>), Num}
TitleSet == {Missing, Str(<<" ", "D", "e", "a", "l", " ">>)}
ContextSet ==
    {[t |-> "missing", item_title |-> Missing], [t |-> "num", item_title |-> Missing]} \cup
    {[t |-> "dict", item_title |-> v] : v \in {Missing, Str(<<"B", "i", "k", "e">>), Num}}
IdSet ==
    {Missing, Null,
     Str(<<"u", "2", "i", "-", "a", "b", "c", "d", "e", "f">>),
     Str(<<"u", "2", "i", "-", "a", "b", "c", "d", "e", "f", "g">>)}
ChatRecords ==
    [users : UsersSet, name : NameSet, title : TitleSet, context : ContextSet,
     id : IdSet]

InitName ==
    /\ InitFaults(NoneWaiting, FALSE, FALSE, FALSE)
    /\ NotStarted
    /\ arg \in ChatRecords
    /\ result = NoResult
    /\ reset = NoReset

\* user_name = extract_user_name(chat)
ExtractName ==
    /\ result = NoResult
    /\ result' = Str(extract_user_name(arg))
    /\ lastTokenCall' = NoCall
    /\ UNCHANGED <<inbox, now, issued, state_file, snapshot,
                   processed_message_ids, sent_replies, access_token,
                   token_expires, auto_reply_enabled, last_error,
                   last_unread_count, th, svc, surfaced, sends, posts,
                   okPosts, failedSends, rejected, pad, disk_faulty,
                   remote_faulty, body_faulty, restarts, repliedAtCrash,
                   checkNows, arg, reset>>

SpecName == InitName /\ [][ExtractName]_vars

\* ------------------------------------------------------------------------
\* SpecIds: one iteration of the scan of get_unread_messages, and the reply
\* loop on what it found, for chat records whose id and whose last message's
\* id are missing, null, empty or well formed (nothing processed or replied
\* to before, auto-reply enabled, the text is a user's)
\* ------------------------------------------------------------------------

\* str(record.get('id')): get gives None for a missing key
IdText(v) == StrOf(IF v.t = "missing" THEN Null ELSE v)

\* a chat without last_message, and a last message
NoLast == [t |-> "missing"]
Msg(id, read, direction) ==
    [t |-> "msg", id |-> id, read |-> read, direction |-> direction]

\* what the iteration appends to unread_messages and adds to the ids
ScanRecord(chat, ids) ==
    LET chat_id == IdText(chat.id)
        msg == chat.last_message
        message_id == IdText(msg.id)
        nothing == [unread |-> <<>>, ids |-> ids]
    IN IF chat_id = <<>> THEN nothing                  \* if not chat_id: continue
       ELSE IF msg.t = "missing" THEN nothing
       ELSE IF message_id = <<>> THEN nothing          \* if not message_id: continue
       ELSE IF ~msg.read /\ msg.direction = "in" /\ message_id \notin ids
       THEN [unread |-> <<[chat_id |-> chat_id, message_id |-> message_id]>>,
             ids |-> ids \cup {message_id}]
       ELSE nothing

\* process_auto_replies: the chat ids send_auto_reply POSTs a reply to
RepliesTo(unread_messages, replied) ==
    {unread_messages[i].chat_id : i \in 1..Len(unread_messages)} \ replied

IdValues == {Missing, Null, Str(<<>>), Str(<<"a", "1">>)}
LastMessages ==
    {NoLast} \cup
    {Msg(id, read, direction) :
        id \in IdValues, read \in BOOLEAN, direction \in {"in", "out"}}
ScanInputs ==
    {[id |-> id, last_message |-> msg] : id \in IdValues, msg \in LastMessages}

InitIds ==
    /\ InitFaults(NoneWaiting, TRUE, FALSE, FALSE)
    /\ NotStarted
    /\ arg \in ScanInputs
    /\ result = NoResult
    /\ reset = NoReset

\* for chat in chats: ...; then process_auto_replies(unread_messages)
ScanOne ==
    /\ result = NoResult
    /\ LET found == ScanRecord(arg, {})
       IN result' = [t |-> "scan", unread |-> found.unread, ids |-> found.ids,
                     posts |-> RepliesTo(found.unread, {})]
    /\ lastTokenCall' = NoCall
    /\ UNCHANGED <<inbox, now, issued, state_file, snapshot,
                   processed_message_ids, sent_replies, access_token,
                   token_expires, auto_reply_enabled, last_error,
                   last_unread_count, th, svc, surfaced, sends, posts,
                   okPosts, failedSends, rejected, pad, disk_faulty,
                   remote_faulty, body_faulty, restarts, repliedAtCrash,
                   checkNows, arg, reset>>

SpecIds == InitIds /\ [][ScanOne]_vars

\* ------------------------------------------------------------------------
\* SpecStamp: _process_timestamps(data) on API responses of up to three
\* levels (an object, an object in an object, an object in a list in an
\* object)
\* ------------------------------------------------------------------------

\* JSON data: a number, a string, an object (its items are the pairs
\* [k, v] in the order of the dict) or a list (its items are values); and
\* the three values derived from a timestamp n, each tagged with the suffix of
\* the key it is stored under
NumV(n) == [t |-> "num", n |-> n, items |-> <<>>]
TextV == [t |-> "str", n |-> 0, items |-> <<>>]
DictV(items) == [t |-> "dict", n |-> 0, items |-> items]
ListV(items) == [t |-> "list", n |-> 0, items |-> items]
FmtV(style, n) == [t |-> style, n |-> n, items |-> <<>>]

\* object keys are strings, written as the sequence of their parts:
\* f"{key}_formatted" is key \o <<"_formatted">>
Suffixes == {"_formatted", "_human", "_datetime"}

\* isinstance(value, (int, float)) and 1_000_000_000 < value < 2_000_000_000
IsTimestamp(value) ==
    value.t = "num" /\ 1000000000 < value.n /\ value.n < 2000000000

\* result[key] = value: a key that is there keeps its place and gets the value
Put(res, key, value) ==
    IF \E i \in 1..Len(res) : res[i].k = key
    THEN [i \in 1..Len(res) |->
             IF res[i].k = key THEN [k |-> key, v |-> value] ELSE res[i]]
    ELSE Append(res, [k |-> key, v |-> value])

\* the timestamp branch: result[key] = value and the three formatted siblings
Expand(res, key, value) ==
    Put(Put(Put(Put(res, key, value),
        key \o <<"_formatted">>, FmtV("_formatted", value.n)),
        key \o <<"_human">>, FmtV("_human", value.n)),
        key \o <<"_datetime">>, FmtV("_datetime", value.n))

RECURSIVE process_timestamps(_)
RECURSIVE ProcessItems(_, _, _)

\* for key, value in data.items(), from item i on, into result
ProcessItems(items, i, res) ==
    IF i > Len(items) THEN res
    ELSE LET key == items[i].k
             value == items[i].v
         IN ProcessItems(items, i + 1,
               IF IsTimestamp(value) THEN Expand(res, key, value)
               ELSE IF value.t \in {"dict", "list"}
               THEN Put(res, key, process_timestamps(value))
               ELSE Put(res, key, value))

process_timestamps(data) ==
    IF data.t = "dict" THEN DictV(ProcessItems(data.items, 1, <<>>))
    ELSE IF data.t = "list"
    THEN ListV([i \in 1..Len(data.items) |-> process_timestamps(data.items[i])])
    ELSE data

\* the inputs: scalars on both sides of the lower end of the timestamp range,
\* and a string
ScalarSet == {NumV(1000000000), NumV(1500000000), TextV}
KeySet == {<<"created">>, <<"created", "_formatted">>, <<"text">>}
\* objects of one or two fields with scalar values, in either order
FlatObjects ==
    {DictV(<<[k |-> a, v |-> x]>>) : a \in KeySet, x \in ScalarSet} \cup
    {DictV(<<[k |-> q[1], v |-> q[3]], [k |-> q[2], v |-> q[4]]>>) :
        q \in {p \in KeySet \X KeySet \X ScalarSet \X ScalarSet : p[1] # p[2]}}
\* the same inside an object next to a timestamp, and inside a list
JsonInputs ==
    FlatObjects \cup
    {DictV(<<[k |-> <<"last_message">>, v |-> d],
             [k |-> <<"updated">>, v |-> NumV(1500000000)]>>) : d \in FlatObjects} \cup
    {DictV(<<[k |-> <<"chats">>, v |-> ListV(<<d, TextV>>)]>>) : d \in FlatObjects}

InitStamp ==
    /\ InitFaults(NoneWaiting, FALSE, FALSE, FALSE)
    /\ NotStarted
    /\ arg \in JsonInputs
    /\ result = NoResult
    /\ reset = NoReset

\* processed_data = self._process_timestamps(chats_data)
ProcessTimestamps ==
    /\ result = NoResult
    /\ result' = process_timestamps(arg)
    /\ lastTokenCall' = NoCall
    /\ UNCHANGED <<inbox, now, issued, state_file, snapshot,
                   processed_message_ids, sent_replies, access_token,
                   token_expires, auto_reply_enabled, last_error,
                   last_unread_count, th, svc, surfaced, sends, posts,
                   okPosts, failedSends, rejected, pad, disk_faulty,
                   remote_faulty, body_faulty, restarts, repliedAtCrash,
                   checkNows, arg, reset>>

SpecStamp == InitStamp /\ [][ProcessTimestamps]_vars

\* ------------------------------------------------------------------------
\* The claims
\* ------------------------------------------------------------------------

InCycle(t) == th[t].pc # "idle"
Unread(t) == {th[t].unread[i].message_id : i \in 1..Len(th[t].unread)}
InboundOf(c) == {ChatMsgs[c][k] : k \in 1..Len(ChatMsgs[c])}

\* C1: under sequential cycles in one process the remote accepts at most one
\* reply POST per chat, and no step POSTs a reply to a chat that is already
\* in sent_replies.
C1_AtMostOneReplyPerChat ==
    /\ [](\A c \in ChatIds : okPosts[c] <= 1)
    /\ [][\A c \in ChatIds : c \in sent_replies => posts'[c] = posts[c]]_vars

\* a second qualifying message of a replied chat went through send_auto_reply
\* and no second POST was made
C1_Witness ==
    /\ "c1" \in sent_replies
    /\ sends["m2"] = 1
    /\ okPosts["c1"] = 1
    /\ posts["c1"] = 1

\* C2: a message id is returned in the unread set of at most one cycle.
C2_SurfacedAtMostOnce == \A m \in InboundIds : surfaced[m] <= 1

\* a later cycle has scanned a chat whose last message is still m1 and
\* found nothing new
C2_Witness ==
    /\ th["loop"].pc = "scan"
    /\ th["loop"].idx > Len(th["loop"].page)
    /\ Len(th["loop"].page) > 0
    /\ th["loop"].page[1].last = "m1"
    /\ surfaced["m1"] = 1
    /\ th["loop"].unread = <<>>

\* C3: send_auto_reply is never called for a message classified as system.
C3_NoReplyToSystem ==
    \A m \in InboundIds : is_system_message(TextOf(m)) => sends[m] = 0

\* auto-reply is enabled and the batch held a system and a regular message;
\* the reply loop is over and the regular one was passed to send_auto_reply
C3_Witness ==
    /\ auto_reply_enabled
    /\ th["loop"].pc = "allchats"
    /\ \E i, j \in 1..Len(th["loop"].unread) :
         /\ th["loop"].unread[i].is_system
         /\ ~th["loop"].unread[j].is_system
         /\ sends[th["loop"].unread[j].message_id] = 1

\* C4: while a cycle dispatches replies, and when it writes the snapshot,
\* every message id of its unread set is in processed_message_ids and
\* _save_processed_ids has run in this cycle (the state file then holds the
\* id, unless the write failed or the set exceeds the cap of the file).
C4_MarkedBeforeReplyAndSnapshot ==
    \A t \in Threads :
        th[t].pc \in {"reply", "post", "mark", "allchats", "snapshot", "done"} =>
            \A m \in Unread(t) :
                /\ m \in processed_message_ids
                /\ th[t].flushed
                /\ (~disk_faulty /\ Cardinality(processed_message_ids) <= STATE_CAP)
                      => m \in state_file.processed

\* a reply is being POSTed for a message of the cycle's unread set
C4_Witness ==
    /\ th["loop"].pc = "post"
    /\ Unread("loop") # {}

\* C5: a message whose reply send failed stays processed, was surfaced once
\* and is passed to send_auto_reply once; its chat is in sent_replies only
\* after an accepted POST, and every POST to a chat belongs to a different
\* message id.
C5_FailedSendNotRetried ==
    /\ \A m \in failedSends :
          /\ m \in processed_message_ids
          /\ surfaced[m] <= 1
          /\ sends[m] = 1
    /\ \A c \in ChatIds :
          /\ c \in sent_replies => okPosts[c] >= 1
          /\ posts[c] <= Cardinality({m \in InboundOf(c) : sends[m] >= 1})

\* the send for m1 failed, later cycles ran, and the chat was replied to
\* when m2 qualified
C5_Witness ==
    /\ "m1" \in failedSends
    /\ "m2" \notin failedSends
    /\ posts["c1"] = 2
    /\ okPosts["c1"] = 1
    /\ "c1" \in sent_replies

\* C6: a chat the remote accepted a reply for before a restart gets no
\* further accepted reply after it.
C6_NoSecondReplyAfterRestart ==
    \A c \in repliedAtCrash : okPosts[c] <= 1

\* C7: at most one thread is inside check_for_updates.
C7_OneCycleAtATime ==
    Cardinality({t \in Threads : InCycle(t)}) <= 1

\* C8: a get_access_token call made while a token is cached and
\* now < token_expires returns the cached token without a request; any other
\* call makes exactly one request, and when the exchange succeeds the cached
\* token is replaced and token_expires = now + expires_in - 300.
C8_TokenReuse ==
    [][lastTokenCall'.res # "none" =>
        LET i == lastTokenCall'.inst
            call == lastTokenCall'
        IN IF access_token[i] # NoToken /\ now < token_expires[i]
           THEN /\ call.requests = 0
                /\ call.returned = access_token[i]
                /\ access_token'[i] = access_token[i]
                /\ token_expires'[i] = token_expires[i]
                /\ issued' = issued
           ELSE /\ call.requests = 1
                /\ call.res = "ok" =>
                      /\ access_token'[i] # access_token[i]
                      /\ access_token'[i] # NoToken
                      /\ call.returned = access_token'[i]
                      /\ token_expires'[i] = now + call.expires_in - 300
    ]_vars

\* the monitor's token had expired and the call replaced it
C8_Witness ==
    /\ lastTokenCall.inst = "monitor"
    /\ lastTokenCall.res = "ok"
    /\ lastTokenCall.returned = 2
    /\ access_token["replier"] = NoToken
    /\ now > 0

\* C9: a token the remote answered 401 to is not returned from the cache by
\* the next get_access_token call.
C9_RefreshAfter401 ==
    ~(lastTokenCall.res = "cached" /\ lastTokenCall.rejectedBefore)

\* C10: when check_for_updates returns after a cycle in which a token
\* exchange, a chat fetch or the snapshot write failed, last_error is set.
C10_LastErrorKept ==
    \A t \in Threads :
        (th[t].pc = "done" /\ th[t].err) => last_error # NoError

\* C11: check_for_updates never lets an exception out: whatever failed in the
\* cycle (token exchange, chat fetch, reply send, snapshot write, a log line),
\* no thread is ever left with an exception propagating out of the cycle, and
\* a finished cycle has returned a triple (possibly the empty one).
C11_NeverPropagates ==
    \A t \in Threads :
        /\ th[t].pc # "raised"
        /\ th[t].pc = "done" => th[t].ret \in {"triple", "empty"}

\* a cycle whose log line raised TypeError (text None) has returned the empty
\* triple and recorded the error
C11_Witness ==
    /\ th["loop"].pc = "done"
    /\ th["loop"].ret = "empty"
    /\ th["loop"].err
    /\ "m4" \in processed_message_ids
    /\ last_error = "Error in check_for_updates"

\* C20: when the chat-listing fetch of a cycle failed, the cycle's unread set
\* is empty, no reply is dispatched, and the processed ids and the replied
\* chats, in memory and in the state file, stay as they were.
C20_FetchFailureChangesNothing ==
    /\ [](th["loop"].fetch_failed =>
            /\ th["loop"].unread = <<>>
            /\ th["loop"].results = <<>>
            /\ th["loop"].pc \in {"scan", "allchats", "snapshot", "done"})
    /\ [][th["loop"].fetch_failed' =>
            UNCHANGED <<processed_message_ids, sent_replies, state_file,
                        sends, posts, surfaced>>]_vars

\* the fetch failed while m1 was waiting in c1: the cycle is over and m1 was
\* neither marked nor answered
C20_Witness ==
    /\ th["loop"].pc = "done"
    /\ th["loop"].fetch_failed
    /\ inbox["c1"].last = "m1"
    /\ "m1" \notin processed_message_ids
    /\ posts["c1"] = 0

\* C18: the unread set of a cycle has exactly one entry for every chat of the
\* full listing (all pages, up to MAX_CHATS chats) whose last message was
\* unread, inbound and not yet processed when the cycle fetched the chats,
\* and no entry for any other chat.
C18_EveryListedChatScanned ==
    \A t \in Threads :
        (th[t].pc \in {"reply", "post", "mark", "allchats", "snapshot"}
            /\ ~th[t].fetch_failed) =>
          /\ {th[t].unread[i].chat_id : i \in 1..Len(th[t].unread)} = th[t].due
          /\ Len(th[t].unread) = Cardinality(th[t].due)

\* C19: get_all_chats terminates within MAX_CHATS / BATCH_SIZE page requests
\* (the offset never passes MAX_CHATS - BATCH_SIZE) and returns a prefix of the
\* listing, in listing order, of at most MAX_CHATS chats: all of the listing
\* or its first MAX_CHATS chats when no request failed, and otherwise the
\* pages before the first empty one.
C19_AllChatsBounded ==
    \A t \in Threads :
        /\ th[t].offset <= MAX_CHATS - BATCH_SIZE
        /\ Len(th[t].all) <= MAX_CHATS
        /\ \A i \in 1..Len(th[t].all) : th[t].all[i].pos = i
        /\ th[t].pc \in {"snapshot", "done"} /\ th[t].ret # "empty" =>
              /\ \/ Len(th[t].all) = Len(Listing)
                 \/ Len(th[t].all) % BATCH_SIZE = 0
              /\ ~th[t].err => Len(th[t].all) = Min(Len(Listing), MAX_CHATS)

\* a listing of 202 chats was fetched in four full pages and cut at MAX_CHATS
C19_Witness ==
    /\ th["loop"].pc = "snapshot"
    /\ Len(Listing) > MAX_CHATS
    /\ Len(th["loop"].all) = MAX_CHATS
    /\ th["loop"].offset = MAX_CHATS - BATCH_SIZE
    /\ ~th["loop"].err

\* C12: no error raised inside an iteration of the background loop ends the
\* loop: no loop thread ever leaves the loop through an exception.
C12_LoopSurvivesErrors ==
    \A L \in LoopThreads : loop[L].why # "error"

\* C13: after stop() (and while start() is not called again) a loop thread
\* starts no further cycle, its cycle in flight runs to its end (the thread
\* leaves check_for_updates only when the cycle is done), it leaves the loop
\* only at the top of the loop, where the sleep check also leads, and it
\* eventually terminates.
C13_StopIsCooperative ==
    /\ [][\A L \in LoopThreads :
            /\ (~running /\ ~running') =>
                  loop'[L].cycle_count = loop[L].cycle_count
            /\ (th[L].pc # "idle" /\ th'[L].pc = "idle") =>
                  (th[L].pc = "done" /\ loop[L].pc = "check")
            /\ (loop[L].why # "stopped" /\ loop'[L].why = "stopped") =>
                  (loop[L].pc = "top" /\ th[L].pc = "idle")]_vars
    /\ \A L \in LoopThreads :
          (~running /\ loop[L].pc \in {"top", "check", "sleep", "exit"})
             ~> (loop[L].pc = "exited" \/ running)

\* stop() came while the loop thread was inside its first cycle and start()
\* was not called again: the thread has left the loop after that one cycle
C13_Witness ==
    /\ loop["loop"].pc = "exited"
    /\ loop["loop"].midstop
    /\ loop["loop"].why = "stopped"
    /\ loop["loop"].cycle_count = 1
    /\ service_stats.successful_cycles = 1
    /\ last_unread_count = 1
    /\ startCalls = 1

\* C14: a start() call made while the service is running changes neither the
\* running flag, the interval, the loop threads, start_attempts nor the
\* cycle counters.
C14_StartWhileRunningIsNoop ==
    [][(startCalls' # startCalls /\ running) =>
          UNCHANGED <<running, interval, thread, loop, service_stats, th>>]_vars

\* start() was called a second time while the service was running
C14_Witness ==
    /\ startCalls = 2
    /\ service_stats.start_attempts = 1
    /\ running
    /\ loop["loop"].pc \in {"top", "check", "sleep"}
    /\ loop["loop2"].pc = "none"

\* C15: at most one loop thread is inside a poll cycle at any time, whatever
\* the sequence of start() and stop() calls.
C15_OneLoopThread ==
    Cardinality({L \in LoopThreads : InCycle(L)}) <= 1

\* C16: the sleep a loop thread starts after a cycle lasts
\* max(10, floor(interval / 2)) seconds when the cycle found unread messages
\* and exactly interval seconds otherwise.
C16_SleepDuration ==
    \A L \in LoopThreads :
        loop[L].pc = "sleep" =>
            Secs(loop[L].planned) =
                IF loop[L].found > 0
                THEN Secs(Max(10, loop[L].interval.s \div 2))
                ELSE loop[L].interval

\* C17: the steps of a check_now call leave the running flag, the interval,
\* the loop threads and the service's statistics as they are, and the call
\* returns only after one whole cycle has run on the caller's thread.
C17_CheckNowFrame ==
    [][/\ th'["api"] # th["api"] =>
            UNCHANGED <<running, interval, thread, loop, stopping, service_stats>>
       /\ (th["api"].pc # "idle" /\ th'["api"].pc = "idle") =>
            (th["api"].pc = "done" /\ th["api"].ret \in {"triple", "empty"})]_vars

\* a check_now cycle has run to its end while the scheduler was running and
\* sleeping after its own first cycle
C17_Witness ==
    /\ th["api"].pc = "done"
    /\ th["api"].ret = "triple"
    /\ checkNows = 1
    /\ running
    /\ loop["loop"].pc = "sleep"
    /\ service_stats.total_cycles = 1
    /\ service_stats.successful_cycles = 1

\* C24: while auto-reply is disabled no reply is dispatched (send_auto_reply
\* is not called, nothing is POSTed) and sent_replies stays as it was loaded,
\* while a cycle's qualifying messages are surfaced and marked processed all
\* the same; a cycle dispatches replies only when auto-reply is enabled and
\* its unread set holds a regular message.
C24_RepliesOnlyWhenEnabled ==
    /\ ~auto_reply_enabled =>
          /\ \A m \in InboundIds : sends[m] = 0
          /\ \A c \in ChatIds : posts[c] = 0
          /\ sent_replies = {}
          /\ state_file.sent = {}
    /\ \A t \in Threads :
          /\ th[t].pc \in {"reply", "post", "mark"} =>
                /\ auto_reply_enabled
                /\ RegularMessages(th[t].unread) # <<>>
          /\ th[t].pc \in {"allchats", "snapshot"} =>
                \A m \in Unread(t) : m \in processed_message_ids /\ surfaced[m] >= 1

\* auto-reply is disabled: a cycle surfaced the regular message m1, marked it
\* processed and went on to the snapshot without a reply
C24_Witness ==
    /\ ~auto_reply_enabled
    /\ th["loop"].pc = "allchats"
    /\ Unread("loop") = {"m1"}
    /\ surfaced["m1"] = 1
    /\ "m1" \in processed_message_ids
    /\ "m1" \in state_file.processed
    /\ posts["c1"] = 0

\* the messages whose text holds a configured system phrase, in any case
SystemIds ==
    {m \in InboundIds :
        \E phrase \in SYSTEM_MESSAGES : Contains(Lower(TextOf(m)), phrase)}

\* C25: a qualifying system message is in the cycle's unread set with
\* is_system = TRUE, its id is in processed_message_ids from then on (and in
\* the state file once the cycle has saved the ids), as for a regular
\* message, and no later cycle returns it again.
C25_SystemMessagesTracked ==
    /\ \A t \in Threads : \A i \in 1..Len(th[t].unread) :
          LET e == th[t].unread[i]
          IN /\ e.is_system <=> e.message_id \in SystemIds
             /\ e.message_id \in processed_message_ids
             /\ th[t].pc \in {"reply", "post", "mark", "allchats", "snapshot"} =>
                   e.message_id \in state_file.processed
    /\ \A m \in SystemIds :
          /\ surfaced[m] <= 1
          /\ surfaced[m] = 1 => m \in processed_message_ids

\* the system message m3 was surfaced by an earlier cycle; a later cycle has
\* scanned chat c2, whose last message is still m3, and found nothing new
C25_Witness ==
    /\ th["loop"].pc = "scan"
    /\ th["loop"].idx > Len(th["loop"].page)
    /\ Len(th["loop"].page) = 2
    /\ th["loop"].page[2].last = "m3"
    /\ "m3" \in SystemIds
    /\ surfaced["m3"] = 1
    /\ "m3" \in state_file.processed
    /\ "m3" \notin Unread("loop")

\* the regular messages of the batch thread t is replying to
Regular(t) == RegularMessages(th[t].unread)
InReplies(t) == th[t].pc \in {"reply", "post", "mark"}

\* C21: send_auto_reply never raises (no step of a send leaves the reply loop
\* through an exception: a failed token exchange or POST is an error result
\* and the loop moves on by one message); the regular messages of the batch
\* are passed to send_auto_reply one by one in input order, a failed send
\* included, and when process_auto_replies is over each of them was passed
\* exactly once.
C21_SendNeverRaises ==
    /\ [](\A t \in Threads :
            /\ th[t].pc # "raised"
            /\ th[t].ret # "empty"
            /\ InReplies(t) =>
                  \A i \in 1..Len(Regular(t)) :
                     sends[Regular(t)[i].message_id] =
                        (IF i < th[t].ridx \/ (i = th[t].ridx /\ th[t].pc # "reply")
                         THEN 1 ELSE 0)
            /\ th[t].pc = "allchats" =>
                  \A i \in 1..Len(Regular(t)) : sends[Regular(t)[i].message_id] = 1)
    /\ [][\A t \in Threads :
            (InReplies(t) /\ th'[t] # th[t]) =>
               /\ th'[t].pc \in {"reply", "post", "mark", "allchats"}
               /\ th'[t].ridx \in {th[t].ridx, th[t].ridx + 1}
               /\ failedSends' # failedSends => th'[t].ridx = th[t].ridx + 1]_vars

\* the send for m1 failed and the next regular message of the batch, m2, was
\* passed to send_auto_reply after it
C21_Witness ==
    /\ th["loop"].pc = "post"
    /\ th["loop"].ridx = 2
    /\ Regular("loop")[1].message_id = "m1"
    /\ Regular("loop")[2].message_id = "m2"
    /\ "m1" \in failedSends
    /\ sends["m1"] = 1
    /\ sends["m2"] = 1

C23_MarkedBeforeReturn ==
    /\ [][\A t \in Threads :
            (/\ th[t].pc = "reply"
             /\ th'[t] # th[t]
             /\ Regular(t)[th[t].ridx].chat_id \in sent_replies) =>
               /\ posts' = posts
               /\ issued' = issued
               /\ access_token' = access_token
               /\ lastTokenCall'.res = "none"
               /\ th'[t].results = th[t].results]_vars
    /\ [](\A c \in ChatIds :
            okPosts[c] >= 1 =>
               \/ c \in sent_replies /\ c \in state_file.sent
               \/ \E t \in Threads :
                    th[t].pc = "mark" /\ Regular(t)[th[t].ridx].chat_id = c)

\* C26: the processed ids in the state file number at most STATE_CAP, and
\* once more than STATE_CAP ids have been inserted they are the STATE_CAP most
\* recently inserted ones (the ids are numbered in insertion order).
C26_CapKeepsNewest ==
    /\ Cardinality(state_file.processed) <= STATE_CAP
    /\ Cardinality(processed_message_ids) > STATE_CAP =>
          state_file.processed =
             {id \in processed_message_ids :
                 id > Cardinality(processed_message_ids) - STATE_CAP}

\* C27: under sequential cycles with a working state file, the file's
\* sent_replies equals the in-memory set once a send has marked and saved a
\* chat, and whenever a cycle is past get_unread_messages (and between
\* cycles) the file's processed ids hold every id inserted so far, as long
\* as no more than STATE_CAP ids are in memory.
C27_StateFileInSync ==
    /\ state_file.sent = sent_replies
    /\ \A c \in ChatIds :
          (okPosts[c] >= 1 /\ th["loop"].pc # "mark") => c \in state_file.sent
    /\ (th["loop"].pc \notin {"scan", "add"} /\ Cardinality(processed_message_ids) <= STATE_CAP) =>
          /\ state_file.processed = processed_message_ids
          /\ \A m \in InboundIds : surfaced[m] >= 1 => m \in state_file.processed
    /\ state_file.exists <=>
          (state_file.processed # {} \/ state_file.sent # {})

\* a cycle surfaced m1 and its reply was accepted, another surfaced m3: the
\* file holds both ids and the replied chat
C27_Witness ==
    /\ th["loop"].pc = "done"
    /\ processed_message_ids = {"m1", "m3"}
    /\ state_file.processed = {"m1", "m3"}
    /\ sent_replies = {"c1"}
    /\ state_file.sent = {"c1"}
    /\ surfaced["m1"] = 1
    /\ surfaced["m3"] = 1

\* C28: while reads and writes of the state file (and of the snapshot file)
\* can fail, no cycle is left through an exception and a cycle under way can
\* always take its next step; the in-memory sets hold every surfaced id and
\* every replied chat whatever the file holds, no message id is surfaced twice
\* and the remote accepts at most one reply per chat.
C28_MemoryKeepsDedup ==
    /\ \A t \in Threads :
          /\ th[t].pc # "raised"
          /\ th[t].pc \notin {"idle", "done"} => ENABLED CycleStep(t)
    /\ \A m \in InboundIds :
          /\ surfaced[m] <= 1
          /\ surfaced[m] = 1 => m \in processed_message_ids
    /\ \A c \in ChatIds :
          /\ okPosts[c] <= 1
          /\ (okPosts[c] = 1 /\ th["loop"].pc # "mark") => c \in sent_replies

\* both saves of the first cycle failed (the file was never written); m2 then
\* arrived in the replied chat, was surfaced and got no second POST
C28_Witness ==
    /\ disk_faulty
    /\ ~state_file.exists
    /\ th["loop"].pc = "allchats"
    /\ processed_message_ids = {"m1", "m2"}
    /\ sent_replies = {"c1"}
    /\ surfaced["m1"] = 1
    /\ surfaced["m2"] = 1
    /\ sends["m2"] = 1
    /\ posts["c1"] = 1
    /\ okPosts["c1"] = 1

\* a field holds a name: a string that is not blank
IsName(v) == v.t = "str" /\ Strip(v.s) # <<>>

\* the participants of the record that carry a name, in the record's order
Named(chat_data) ==
    IF chat_data.users.t = "list"
    THEN SelectSeq(chat_data.users.items, LAMBDA u : u.dict /\ IsName(u.name))
    ELSE <<>>

\* the name the fallback chain of the claim gives: the first participant
\* name, else the chat's name or else its title, else the item title, else
\* the end of a chat id of more than 10 characters, else 'Unknown User'
ChainName(chat_data) ==
    IF Named(chat_data) # <<>> THEN Strip(Named(chat_data)[1].name.s)
    ELSE IF IsName(Or(chat_data.name, chat_data.title))
    THEN Strip(Or(chat_data.name, chat_data.title).s)
    ELSE IF chat_data.context.t = "dict" /\ IsName(chat_data.context.item_title)
    THEN FromPrefix \o Strip(chat_data.context.item_title.s)
    ELSE LastResort(chat_data)

\* C29: for every chat record, with missing or malformed fields too,
\* extract_user_name returns a non-empty string, and it is the name the
\* fallback chain gives.
C29_NameFallbackChain ==
    result.t = "str" =>
        /\ result.s # <<>>
        /\ result.s = ChainName(arg)

\* the value object out holds under key
Has(out, key, value) ==
    \E j \in 1..Len(out.items) : out.items[j].k = key /\ out.items[j].v = value

RECURSIVE Lossless(_, _)
\* out keeps everything of data: at every depth a timestamp field is there
\* with its value and its three formatted siblings, every other field is
\* there with its value (processed in turn when it is an object or a list),
\* and lists keep their length and order
Lossless(data, out) ==
    IF data.t = "dict"
    THEN /\ out.t = "dict"
         /\ \A i \in 1..Len(data.items) :
               LET key == data.items[i].k
                   value == data.items[i].v
               IN IF IsTimestamp(value)
                  THEN /\ Has(out, key, value)
                       /\ \A x \in Suffixes :
                             \E j \in 1..Len(out.items) :
                                /\ out.items[j].k = key \o <<x>>
                                /\ out.items[j].v = FmtV(x, value.n)
                  ELSE \E j \in 1..Len(out.items) :
                          /\ out.items[j].k = key
                          /\ Lossless(value, out.items[j].v)
    ELSE IF data.t = "list"
    THEN /\ out.t = "list"
         /\ Len(out.items) = Len(data.items)
         /\ \A i \in 1..Len(data.items) : Lossless(data.items[i], out.items[i])
    ELSE out = data

\* C30: timestamp expansion is lossless at every nesting depth: a field whose
\* number lies in the timestamp range keeps its key and value next to the
\* three added siblings, and no other field of the input is changed or removed.
C30_ExpansionLossless ==
    result.t = "dict" => Lossless(arg, result)

\* C31: with a check_now cycle running beside a scheduled cycle, no chat gets
\* more than one reply POST and no message id is returned as unread by both
\* cycles.
C31_ConcurrentCyclesDedup ==
    /\ \A c \in ChatIds : posts[c] <= 1
    /\ \A m \in InboundIds : surfaced[m] <= 1

\* C32: once a chat id is in the sent_replies of the state file, every later
\* write of the file keeps it.
C32_PersistedRepliesMonotonic ==
    [][state_file.sent \subseteq state_file'.sent]_vars

FiniteIntervals == \A L \in LoopThreads : ~loop[L].interval.inf

\* C33: from a successful start() until the next stop() call the running flag
\* stays true (only a stop() call clears it) and a loop thread is in its loop;
\* stated for the starts with a finite interval.
C33_RunningUntilStop ==
    /\ []((running /\ FiniteIntervals) =>
            \E L \in LoopThreads : loop[L].pc \in {"top", "check", "sleep"})
    /\ [][(running /\ ~running' /\ FiniteIntervals) => (~stopping /\ stopping')]_vars

\* C34: when a cycle has returned, every message id it left in
\* processed_message_ids was returned in the unread set of a cycle; stated for
\* the messages that are well formed themselves (their text is not null).
C34_MarkedOnlyIfSurfaced ==
    th["loop"].pc = "done" =>
        \A m \in processed_message_ids : ~NullText(m) => surfaced[m] >= 1

\* C35: after each scheduled cycle the loop sleeps at least one 1-second tick
\* before the next, whatever interval start() was given.
C35_AtLeastOneTick ==
    [][\A L \in LoopThreads :
          (loop[L].pc = "check" /\ loop'[L].pc = "sleep") => loop'[L].planned >= 1]_vars

\* C37: a token exchange that fails with 401, another HTTP error or a network
\* error returns nothing to the caller and leaves the instance's cached token
\* and expiry as they were (the monitor's caller get_chats records the error);
\* the cached token and expiry change only in a call whose exchange succeeded.
C37_FailedExchangeKeepsCache ==
    /\ [][lastTokenCall'.res \in Failures =>
            /\ lastTokenCall'.requests = 1
            /\ lastTokenCall'.returned = NoToken
            /\ access_token' = access_token
            /\ token_expires' = token_expires
            /\ lastTokenCall'.inst = "monitor" => last_error' = "Error getting chats"]_vars
    /\ [][(access_token' # access_token \/ token_expires' # token_expires) =>
            /\ lastTokenCall'.res = "ok"
            /\ \A i \in Insts \ {lastTokenCall'.inst} :
                  /\ access_token'[i] = access_token[i]
                  /\ token_expires'[i] = token_expires[i]]_vars

\* the monitor's cached token had expired, the exchange for a new one was
\* answered 401, and the expired token is still the cached one
C37_Witness ==
    /\ lastTokenCall.inst = "monitor"
    /\ lastTokenCall.res = "401"
    /\ access_token["monitor"] = 1
    /\ now >= token_expires["monitor"]

\* the record has no id, or its last message has none
NoId(chat) ==
    \/ chat.id.t \in {"missing", "null"}
    \/ chat.last_message.t = "msg" /\ chat.last_message.id.t \in {"missing", "null"}

\* C38: a chat record without id, or whose last message has no id, is skipped:
\* nothing is appended to the unread messages, no id is added to
\* processed_message_ids and no reply is POSTed.
C38_NoIdIsSkipped ==
    (result.t = "scan" /\ NoId(arg)) =>
        /\ result.unread = <<>>
        /\ result.ids = {}
        /\ result.posts = {}

\* C39: the loop counts a cycle in successful_cycles only if its
\* check_for_updates recorded no error (no failed token exchange or chat fetch,
\* no exception caught by its handler).
C39_SuccessMeansNoError ==
    [][\A L \in LoopThreads :
          (/\ loop[L].pc = "check"
           /\ service_stats'.successful_cycles > service_stats.successful_cycles)
          => ~th[L].err]_vars

====
